---------------------------- MODULE Spec2Model ----------------------------
(***************************************************************************)
(* Model of the BM1366 mining pipeline of ESP-Miner-Matrix: the serial     *)
(* wire codec, the job registry shared by the ASIC sender and the ASIC     *)
(* receiver, result decoding, and clean_jobs abandonment.                  *)
(***************************************************************************)
EXTENDS Integers, Sequences, FiniteSets, TLC

(***************************************************************************)
(* Fixed-width integer helpers (uint8_t / uint16_t / uint32_t arithmetic). *)
(***************************************************************************)
RECURSIVE BitAnd(_, _)
BitAnd(a, b) ==
    IF a = 0 \/ b = 0 THEN 0
    ELSE (a % 2) * (b % 2) + 2 * BitAnd(a \div 2, b \div 2)

RECURSIVE BitOr(_, _)
BitOr(a, b) ==
    IF a = 0 THEN b
    ELSE IF b = 0 THEN a
    ELSE (IF (a % 2) + (b % 2) > 0 THEN 1 ELSE 0) + 2 * BitOr(a \div 2, b \div 2)

\* 2^n for n in 0 .. 30
Pow2Table ==
    << 1, 2, 4, 8, 16, 32, 64, 128, 256, 512, 1024, 2048, 4096, 8192, 16384, 32768,
       65536, 131072, 262144, 524288, 1048576, 2097152, 4194304, 8388608, 16777216,
       33554432, 67108864, 134217728, 268435456, 536870912, 1073741824 >>
Pow2(n) == Pow2Table[n + 1]

U8(x)  == x % 256
U16(x) == x % 65536

\* bit k of x
Bit(x, k) == (x \div Pow2(k)) % 2

\* x with bit k inverted (x XOR 2^k)
FlipBit(x, k) ==
    LET p == Pow2(k)
    IN  IF (x \div p) % 2 = 1 THEN x - p ELSE x + p

\* A uint32_t that may exceed 2^31 - 1 (a nonce) is held as << high half, low half >>
\* of 16 bits each; block versions stay below 2^31 and are plain integers.
W32(hi, lo) == << hi, lo >>

\* the four bytes of a uint32_t as memcpy lays them out on the little-endian target
LE32(v)  == << v % 256, (v \div 256) % 256, (v \div 65536) % 256, (v \div 16777216) % 256 >>
LE32W(w) == << w[2] % 256, w[2] \div 256, w[1] % 256, w[1] \div 256 >>

(***************************************************************************)
(* Protocol constants of bm1366.c.                                         *)
(***************************************************************************)
TYPE_JOB == 32
TYPE_CMD == 64
GROUP_SINGLE == 0
GROUP_ALL == 16
CMD_SETADDRESS == 0
CMD_WRITE == 1
CMD_READ == 2
CMD_INACTIVE == 3
TICKET_MASK == 20
BM1366_TIMEOUT_THRESHOLD == 2
ResultFrameLen == 11
JobIdStep == 8
JobIdModulus == 128
JobIdMask == 248
TxPreamble0 == 85
TxPreamble1 == 170
RxPreamble0 == 170
RxPreamble1 == 85

(***************************************************************************)
(* CRC-5 (commands) and CRC-16/FALSE (jobs) of the wire codec.  crc.c is   *)
(* not part of the sources at hand; both follow section 4.1 of the design. *)
(* CRC-5: polynomial x^5+x^2+1, register preset to all ones, bits taken    *)
(* most significant first.  CRC-16/FALSE: polynomial 0x1021, preset 0xFFFF.*)
(***************************************************************************)
Crc5Bit(crc, din) ==
    LET fb == ((crc \div 16) + din) % 2
        sh == (crc * 2) % 32
    IN  IF fb = 1 THEN FlipBit(sh, 2) + 1 ELSE sh

\* the register is reduced to a value (next \in 0 .. 31) before the next step
RECURSIVE Crc5Byte(_, _, _)
Crc5Byte(crc, byte, k) ==
    IF k < 0 THEN crc
    ELSE LET next == Crc5Bit(crc, Bit(byte, k))
         IN  IF next \in 0 .. 31 THEN Crc5Byte(next, byte, k - 1) ELSE next

\* the bytes data[i .. j] are folded in order, the left half before the right
RECURSIVE Crc5Range(_, _, _, _)
Crc5Range(crc, data, i, j) ==
    IF i > j THEN crc
    ELSE IF i = j THEN Crc5Byte(crc, data[i], 7)
    ELSE LET m    == (i + j) \div 2
             left == Crc5Range(crc, data, i, m)
         IN  IF left \in 0 .. 31 THEN Crc5Range(left, data, m + 1, j) ELSE left

crc5(data) == Crc5Range(31, data, 1, Len(data))

Crc16Bit(crc, din) ==
    LET fb == ((crc \div 32768) + din) % 2
        sh == (crc * 2) % 65536
    IN  IF fb = 1 THEN FlipBit(FlipBit(sh, 12), 5) + 1 ELSE sh

RECURSIVE Crc16Shift(_, _)
Crc16Shift(crc, n) ==
    IF n = 0 THEN crc
    ELSE LET next == Crc16Bit(crc, 0)
         IN  IF next \in 0 .. 65535 THEN Crc16Shift(next, n - 1) ELSE next

\* the 256-entry lookup table of the byte-wise CRC-16
crc16_table == [ b \in 0 .. 255 |-> Crc16Shift(b * 256, 8) ]

\* a ^ b on bytes
RECURSIVE XorBits(_, _, _)
XorBits(a, b, n) ==
    IF n = 0 THEN 0
    ELSE ((a + b) % 2) + 2 * XorBits(a \div 2, b \div 2, n - 1)

XorTable == [ a \in 0 .. 255 |-> [ b \in 0 .. 255 |-> XorBits(a, b, 8) ] ]
Xor8(a, b) == XorTable[a][b]

\* crc = crc16_table[((crc >> 8) ^ byte) & 0xFF] ^ (crc << 8)
Crc16Step(crc, byte) ==
    LET t == crc16_table[Xor8(crc \div 256, byte)]
    IN  Xor8(crc % 256, t \div 256) * 256 + (t % 256)

\* the bytes data[i .. j] are folded in order, the left half before the right
RECURSIVE Crc16Range(_, _, _, _)
Crc16Range(crc, data, i, j) ==
    IF i > j THEN crc
    ELSE IF i = j THEN Crc16Step(crc, data[i])
    ELSE LET m    == (i + j) \div 2
             left == Crc16Range(crc, data, i, m)
         IN  IF left \in 0 .. 65535 THEN Crc16Range(left, data, m + 1, j) ELSE left

crc16_false(data) == Crc16Range(65535, data, 1, Len(data))

(***************************************************************************)
(* _send_BM1366: the frame handed to SERIAL_send.  total_length and the    *)
(* length byte are uint8_t.                                                *)
(***************************************************************************)
\* mutant: the CRC is computed over the payload only, not header..payload
SendFrameCrcOverPayloadOnly(header, data) ==
    LET isJob == BitAnd(header, TYPE_JOB) # 0
        lenb  == IF isJob THEN U8(Len(data) + 4) ELSE U8(Len(data) + 3)
        c16   == crc16_false(data)
    IN  << TxPreamble0, TxPreamble1, header, lenb >> \o data \o
        (IF isJob THEN << (c16 \div 256) % 256, c16 % 256 >> ELSE << crc5(data) >>)

send_BM1366(header, data) ==
    LET data_len     == Len(data)
        isJob        == BitAnd(header, TYPE_JOB) # 0
        total_length == IF isJob THEN U8(data_len + 6) ELSE U8(data_len + 5)
        lenb         == IF isJob THEN U8(data_len + 4) ELSE U8(data_len + 3)
        covered      == << header, lenb >> \o data
        crc16_total  == crc16_false(covered)
        buf          == << TxPreamble0, TxPreamble1, header, lenb >> \o data \o
                        (IF isJob
                         THEN << (crc16_total \div 256) % 256, crc16_total % 256 >>
                         ELSE << crc5(covered) >>)
    IN  SubSeq(buf, 1, total_length)


(***************************************************************************)
(* Bounds of the model.                                                    *)
(***************************************************************************)
\* mining.notify messages parsed in one run of Spec
MaxNotify == 2
\* jobs built in one run of Spec
MaxJobs == 1
\* jobs sent in SpecRegistry and SpecDecode (ids wrap after 16)
MaxSends == 17
\* payload length of the enumerated command frames
MaxPayload == 3
\* length of the one long payload handed to the wire codec
LongPayload == 250
\* applications of increment_bitmask to one version
MaxRolls == 5
\* calls of test_nonce_value in one run
MaxTests == 2
\* shares submitted in one run of SpecSession
MaxSubmits == 2
\* reconnects (calls of STRATUM_V1_reset_uid) in one run of SpecSession
MaxResets == 1
\* bytes of the stream a connection delivers to the line reader
MaxStream == 6
\* read failures, each followed by a reconnect, in one run of SpecLine
MaxReconnects == 1
\* highest ramp target of SpecRamp, in steps of 25 MHz
MaxRampStep == 12
\* every difficulty up to this one is requested in SpecMask
MaxDifficulty == 70
\* every chain length up to this one is brought up in SpecBringUp
MaxChain == 4
\* found nonces reported in one run of SpecBestDiff
MaxNonces == 2
\* longest extranonce_2, in bytes, asked for in SpecExtranonce
MaxExtranonceLen == 6
\* recv calls returning 0 that are told apart in SpecClose
MaxZeroReads == 2
\* longest stream of a connection in SpecClose
MaxClosedStream == 4
\* highest target frequency of SpecPll, in steps of 6.25 MHz
MaxFreqStep == 100

(***************************************************************************)
(* Sizes of the orchestrator that are declared outside the sources at      *)
(* hand (global_state.h, asic_task.c): the registry has one slot per       *)
(* assignable job id, the job queue holds one notification's worth of jobs.*)
(***************************************************************************)
RegistrySize == 128
\* static CorePatoshiStats core_stats[112]
CoreStatsSize == 112
\* no core_stats[] entry is being indexed
NoCore == -1
JobQueueCap  == 1

VARIABLES
    \* stratum reader and job creator
    n_notify,          \* mining.notify messages parsed so far
    last_clean,        \* index of the newest notification with clean_jobs = true
    abandon_epoch,     \* bumped on every clean_jobs notification
    notify_queue,      \* parsed notifications waiting for the job creator
    cur_notif,         \* notification the job creator builds jobs from
    asic_job_queue,    \* built jobs waiting for the sender
    n_jobs,            \* jobs allocated so far (identity of each bm_job)
    \* BM1366_send_work
    id,                \* static uint8_t id
    active_jobs,       \* GLOBAL_STATE->ASIC_TASK_MODULE.active_jobs[]
    valid_jobs,        \* GLOBAL_STATE->valid_jobs[]
    valid_jobs_lock,   \* holder of GLOBAL_STATE->valid_jobs_lock
    spc,               \* position of the sender inside BM1366_send_work
    next_bm_job,       \* argument of the running BM1366_send_work
    freed,             \* bm_job allocations released by free_bm_job, in order
    tx,                \* << >> or << f >>, f the last frame handed to SERIAL_send
    \* serial receive side
    uart_pending,      \* the UART receive buffer holds bytes of the chain
    asic_response_buffer,
    received,          \* return value of SERIAL_rx in the running call
    asic_result,       \* pointer BM1366_receive_work returned: "NULL" or "buffer"
    consec_timeouts,   \* SERIAL_rx timeouts since the last non-timeout return,
                       \* counted up to BM1366_TIMEOUT_THRESHOLD
    timeout_logged,    \* "ASIC not sending data" has been logged
    \* BM1366_proccess_work and the result task
    rpc,               \* position of the receiver: "recv" before the call of
                       \* BM1366_receive_work, "ret" at its return, "check" before
                       \* the valid_jobs test, "read" before the active_jobs read,
                       \* "task" when the result is back in the result task
    r_valid,           \* value read from valid_jobs[job_id]
    core_id,           \* index used on core_stats[] in the call under way
    result,            \* static task_result result / the returned pointer
    last_share,        \* newest share submitted upstream
    submit_tick,       \* flips on every submit
    \* inputs of the wire codec
    cmd_header,
    cmd_data,
    \* version rolling
    bm_mask,           \* version_mask handed to increment_bitmask
    bm_trace,          \* the start value and each value increment_bitmask returned
    \* best share tracking of mining.c
    best_diff,         \* static double best_diff
    best_nonce,        \* static uint32_t best_nonce
    best_version,      \* static uint32_t best_version
    tn_log,            \* the calls of test_nonce_value so far, in order
    \* stratum requests
    send_uid,          \* static int send_uid
    uid_reg,           \* per task: the request being formatted, with the id it loaded
    requests,          \* requests written to the socket since the last reset
    stage,             \* startup steps the stratum task has gone through
    n_submits,         \* calls of STRATUM_V1_submit_share so far
    n_resets,          \* calls of STRATUM_V1_reset_uid so far
    last_response,     \* the response parsed last: its request, result and method
    \* line reader
    sock_stream,       \* bytes of the connection that recv has not delivered yet
    line_input,        \* the whole stream of the connection
    json_rpc_buffer,   \* static char * json_rpc_buffer
    lpc,               \* "idle" between calls, "loop" at the recv, "crashed"
    lines_out,         \* lines returned since the connection was made
    conn,              \* number of the connection
    discarded,         \* strlen of the buffer given up at the last read failure
    \* STRATUM_V1_parse and the stratum task
    parse_in,          \* the line parsed last
    message,           \* StratumApiV1Message filled by the last parse
    sess,              \* session parameters the stratum task keeps
    sess_prev,         \* their value before the last line
    task_action,       \* what the stratum task did with the last message
    fw,                \* "running", or "halted" after abort() or a panic
    \* BM1366_send_hash_frequency
    target_freq,       \* float target_freq, in hundredths of a MHz
    pll_dividers,      \* fb_divider, ref_divider, post_divider1, post_divider2
    current_frequency, \* static float current_frequency, as << numerator, denominator >>
                       \* in hundredths of a MHz
    \* do_frequency_ramp_up
    ramp_start,        \* current_frequency when the ramp was entered
    ramp_target,       \* float target_frequency, in hundredths of a MHz
    ramp_writes,       \* arguments of the BM1366_send_hash_frequency calls, in order
    \* BM1366_set_job_difficulty_mask
    asic_difficulty,   \* int difficulty as passed in
    \* BM1366_init
    chain_length,      \* answers the chain gives to the enumeration probe
    init_frequency,    \* uint64_t frequency
    chip_counter,      \* int chip_counter
    ipc,               \* position of BM1366_init
    init_trace,        \* what bring-up has done so far, in order
    init_ret,          \* return value of BM1366_init, -1 until it returns
    \* _check_for_best_diff
    best_session_nonce_diff,  \* module->best_session_nonce_diff
    best_nonce_diff,          \* module->best_nonce_diff
    FOUND_BLOCK,              \* module->FOUND_BLOCK
    nvs_writes,               \* values passed to nvs_config_set_u64(NVS_CONFIG_BEST_DIFF, ..)
    found_log,                \* the nonces reported so far, with what each call did
    \* extranonce_2_generate
    en2_copy,          \* which of the two definitions is called
    en2_value,         \* uint32_t extranonce_2
    en2_length,        \* uint32_t length
    en2_out,           \* the string returned, one hex digit per element
    \* the pool's end of the socket
    peer_closed,       \* the peer has closed the connection
    zero_reads         \* recv calls of the call under way that returned 0

stratum_vars  == << n_notify, last_clean, abandon_epoch, notify_queue, cur_notif,
                    asic_job_queue, n_jobs >>
sender_vars   == << id, active_jobs, valid_jobs, valid_jobs_lock, spc, next_bm_job,
                    freed, tx >>
serial_vars   == << uart_pending, asic_response_buffer, received, asic_result,
                    consec_timeouts, timeout_logged >>
receiver_vars == << rpc, r_valid, core_id, result, last_share, submit_tick >>
codec_vars    == << cmd_header, cmd_data >>
bitmask_vars  == << bm_mask, bm_trace >>
nonce_vars    == << best_diff, best_nonce, best_version, tn_log >>
session_vars  == << send_uid, uid_reg, requests, stage, n_submits, n_resets,
                    last_response >>
line_vars     == << sock_stream, line_input, json_rpc_buffer, lpc, lines_out, conn,
                    discarded >>
parse_vars    == << parse_in, message, sess, sess_prev, task_action, fw >>
pll_vars      == << target_freq, pll_dividers, current_frequency >>
ramp_vars     == << ramp_start, ramp_target, ramp_writes >>
mask_vars     == << asic_difficulty >>
init_vars     == << chain_length, init_frequency, chip_counter, ipc, init_trace, init_ret >>
bestdiff_vars == << best_session_nonce_diff, best_nonce_diff, FOUND_BLOCK, nvs_writes,
                    found_log >>
en2_vars      == << en2_copy, en2_value, en2_length, en2_out >>
close_vars    == << peer_closed, zero_reads >>
chip_vars     == << ramp_vars, mask_vars, init_vars, bestdiff_vars, en2_vars, close_vars >>
unit_vars     == << bitmask_vars, nonce_vars, session_vars, line_vars, parse_vars,
                    pll_vars, chip_vars >>
vars == << stratum_vars, sender_vars, serial_vars, receiver_vars, codec_vars, unit_vars >>

(***************************************************************************)
(* Records.                                                                *)
(***************************************************************************)
NoJob    == [uid |-> 0, notif |-> 0, version |-> 0, epoch |-> 0]
NoNotif  == [idx |-> 0, version |-> 0, epoch |-> 0, clean |-> FALSE]
NoResult == [job_id |-> 0, nonce |-> W32(0, 0), rolled_version |-> 0]
NoShare  == [notif |-> 0, nonce |-> W32(0, 0), version |-> 0]

Slots == 0 .. (RegistrySize - 1)

\* block version the pool sends in its k-th notification
PoolVersion(k) == 536870912 + 4 * (k - 1)

\* what reading memory that holds no live bm_job may yield as a version
GarbageVersions == { 0, 1431655765 }


(***************************************************************************)
(* Stratum reader.  STRATUM_V1_parse turns a mining.notify line into a     *)
(* mining_notify and sets should_abandon_work from the last element of     *)
(* params.  params is abstracted to << job_id, version, clean_jobs >>.     *)
(***************************************************************************)
\* mutant: should_abandon_work is never raised
ParseNotifyNeverAbandons(params) ==
    [ job_id |-> params[1], version |-> params[2], should_abandon_work |-> FALSE ]

STRATUM_V1_parse_notify(params) ==
    LET paramsLength == Len(params)
    IN  [ job_id  |-> params[1],
          version |-> params[2],
          should_abandon_work |-> (params[paramsLength] = TRUE) ]

\* The reader task: parse, raise the abandon epoch on clean_jobs, queue the
\* notification (on clean_jobs the new notification supersedes the queue).
StratumReader ==
    /\ n_notify < MaxNotify
    /\ \E clean \in BOOLEAN :
         LET k     == n_notify + 1
             msg   == STRATUM_V1_parse_notify(<< k, PoolVersion(k), clean >>)
             epoch == IF msg.should_abandon_work THEN abandon_epoch + 1 ELSE abandon_epoch
             n     == [ idx |-> msg.job_id, version |-> msg.version, epoch |-> epoch,
                        clean |-> msg.should_abandon_work ]
         IN  /\ n_notify' = k
             /\ last_clean' = IF clean THEN k ELSE last_clean
             /\ abandon_epoch' = epoch
             /\ notify_queue' = IF msg.should_abandon_work THEN << n >>
                                ELSE Append(notify_queue, n)
    /\ UNCHANGED << cur_notif, asic_job_queue, n_jobs >>
    /\ UNCHANGED << sender_vars, serial_vars, receiver_vars, codec_vars, unit_vars >>

\* The job creator takes the next notification; on clean_jobs it flushes the
\* job queue (releasing the queued jobs) before it builds new work.
JobCreatorAccept ==
    /\ notify_queue # << >>
    /\ cur_notif' = Head(notify_queue)
    /\ notify_queue' = Tail(notify_queue)
    /\ IF Head(notify_queue).clean
       THEN /\ asic_job_queue' = << >>
            /\ freed' = freed \o [ i \in 1 .. Len(asic_job_queue) |-> asic_job_queue[i].uid ]
       ELSE UNCHANGED << asic_job_queue, freed >>
    /\ UNCHANGED << n_notify, last_clean, abandon_epoch, n_jobs >>
    /\ UNCHANGED << id, active_jobs, valid_jobs, valid_jobs_lock, spc, next_bm_job, tx >>
    /\ UNCHANGED << serial_vars, receiver_vars, codec_vars, unit_vars >>

\* construct_bm_job: the job carries the version of its notification; the job
\* creator tags it with the notification's epoch and queues it.
construct_bm_job(params, uid) ==
    [ uid |-> uid, notif |-> params.idx, version |-> params.version, epoch |-> params.epoch ]

JobCreatorBuild(limit) ==
    /\ cur_notif # NoNotif
    /\ n_jobs < limit
    /\ Len(asic_job_queue) < JobQueueCap
    /\ n_jobs' = n_jobs + 1
    /\ asic_job_queue' = Append(asic_job_queue, construct_bm_job(cur_notif, n_jobs + 1))
    /\ UNCHANGED << n_notify, last_clean, abandon_epoch, notify_queue, cur_notif >>
    /\ UNCHANGED << sender_vars, serial_vars, receiver_vars, codec_vars, unit_vars >>

(***************************************************************************)
(* BM1366_send_work, one action per step that another task can observe.    *)
(***************************************************************************)
\* mutant: the job id advances by 4
NextJobIdStep4(i) == (i + 4) % JobIdModulus

NextJobId(i) == (i + JobIdStep) % JobIdModulus

\* optimal_start = (rand() % max_starts) * SUBRANGE_SIZE as a uint32_t.
\* SUBRANGE_SIZE is a multiple of 2^16, so the division of 2^32 - 1 by it is
\* done on the high halves and the low half of every start is 0.
SubrangeSize == 10 * (16384 * 10000)
RandStarts ==
    LET unit       == SubrangeSize \div Pow2(16)
        max_starts == ((Pow2(16) - 1) \div unit) + 1
    IN  { W32((i * unit) % Pow2(16), 0) : i \in 0 .. (max_starts - 1) }

\* the packed BM1366_job as it is copied into the JOB frame
JobBytes(job_id, starting_nonce, job) ==
    << job_id, 1 >> \o LE32W(starting_nonce) \o LE32(486604799) \o LE32(1700000000 + job.notif)
       \o [ i \in 1 .. 32 |-> job.notif ] \o [ i \in 1 .. 32 |-> 255 - job.notif ]
       \o LE32(job.version)

\* allocations handed to free_bm_job when the slot already has an occupant
\* mutant: the occupant is released twice
ReleasedTwice(occupant) ==
    IF occupant # NoJob THEN << occupant.uid, occupant.uid >> ELSE << >>

Released(occupant) ==
    IF occupant # NoJob THEN << occupant.uid >> ELSE << >>

\* the ASIC task takes the next job and calls BM1366_send_work: the id is
\* advanced and the prior occupant of the slot is released
SendWorkBegin ==
    /\ spc = "idle"
    /\ asic_job_queue # << >>
    /\ next_bm_job' = Head(asic_job_queue)
    /\ asic_job_queue' = Tail(asic_job_queue)
    /\ id' = NextJobId(id)
    /\ freed' = freed \o Released(active_jobs[NextJobId(id)])
    /\ spc' = "install"
    /\ UNCHANGED << n_notify, last_clean, abandon_epoch, notify_queue, cur_notif, n_jobs >>
    /\ UNCHANGED << active_jobs, valid_jobs, valid_jobs_lock, tx >>
    /\ UNCHANGED << serial_vars, receiver_vars, codec_vars, unit_vars >>

\* mutant: the job is stored in the slot of the previous id
InstallInPreviousSlot ==
    /\ spc = "install"
    /\ active_jobs' = [ active_jobs EXCEPT ![(id + JobIdModulus - JobIdStep) % JobIdModulus] = next_bm_job ]
    /\ spc' = "lock"
    /\ UNCHANGED << id, valid_jobs, valid_jobs_lock, next_bm_job, freed, tx >>
    /\ UNCHANGED << stratum_vars, serial_vars, receiver_vars, codec_vars, unit_vars >>

SendWorkInstall ==
    /\ spc = "install"
    /\ active_jobs' = [ active_jobs EXCEPT ![id] = next_bm_job ]
    /\ spc' = "lock"
    /\ UNCHANGED << id, valid_jobs, valid_jobs_lock, next_bm_job, freed, tx >>
    /\ UNCHANGED << stratum_vars, serial_vars, receiver_vars, codec_vars, unit_vars >>

SendWorkLock ==
    /\ spc = "lock"
    /\ valid_jobs_lock = "free"
    /\ valid_jobs_lock' = "sender"
    /\ spc' = "set_valid"
    /\ UNCHANGED << id, active_jobs, valid_jobs, next_bm_job, freed, tx >>
    /\ UNCHANGED << stratum_vars, serial_vars, receiver_vars, codec_vars, unit_vars >>

\* mutant: valid_jobs[id] is left as it was
SetValidSkipped ==
    /\ spc = "set_valid"
    /\ spc' = "unlock"
    /\ UNCHANGED << id, active_jobs, valid_jobs, valid_jobs_lock, next_bm_job, freed, tx >>
    /\ UNCHANGED << stratum_vars, serial_vars, receiver_vars, codec_vars, unit_vars >>

SendWorkSetValid ==
    /\ spc = "set_valid"
    /\ valid_jobs' = [ valid_jobs EXCEPT ![id] = 1 ]
    /\ spc' = "unlock"
    /\ UNCHANGED << id, active_jobs, valid_jobs_lock, next_bm_job, freed, tx >>
    /\ UNCHANGED << stratum_vars, serial_vars, receiver_vars, codec_vars, unit_vars >>

SendWorkUnlock ==
    /\ spc = "unlock"
    /\ valid_jobs_lock' = "free"
    /\ spc' = "transmit"
    /\ UNCHANGED << id, active_jobs, valid_jobs, next_bm_job, freed, tx >>
    /\ UNCHANGED << stratum_vars, serial_vars, receiver_vars, codec_vars, unit_vars >>

SendWorkTransmit ==
    /\ spc = "transmit"
    /\ \E optimal_start \in RandStarts :
         tx' = << send_BM1366(TYPE_JOB + GROUP_SINGLE + CMD_WRITE,
                              JobBytes(id, optimal_start, next_bm_job)) >>
    /\ spc' = "idle"
    /\ UNCHANGED << id, active_jobs, valid_jobs, valid_jobs_lock, next_bm_job, freed >>
    /\ UNCHANGED << stratum_vars, serial_vars, receiver_vars, codec_vars, unit_vars >>


(***************************************************************************)
(* Result frames on the wire: 11 bytes, preamble AA 55, nonce (uint32,     *)
(* little-endian), midstate_num, job_id, version (uint16, little-endian),  *)
(* crc.                                                                    *)
(***************************************************************************)
FrameBody(nonce, midstate_num, job_id, version) ==
    << RxPreamble0, RxPreamble1 >> \o LE32W(nonce)
       \o << midstate_num, job_id, version % 256, version \div 256 >>

MakeFrame(nonce, midstate_num, job_id, version, crc_ok) ==
    LET body == FrameBody(nonce, midstate_num, job_id, version)
    IN  body \o << IF crc_ok THEN crc5(body) ELSE (crc5(body) + 1) % 32 >>

\* the frame the chain delivers in Spec: a nonce for job 0x08 (small core 2)
FrameSet ==
    { MakeFrame(W32(4660, 22136), 0, 10, 1, TRUE) }

\* frames the chain (or line noise) may deliver in SpecDecode
ScenarioFrames ==
    { MakeFrame(W32(4660, 22136), 0, 56, 1, TRUE),              \* job 0x38, version 0x0001
      MakeFrame(W32(4660, 22136), 0, 56, 1, FALSE),             \* the same, crc damaged
      MakeFrame(W32(39612, 57072), 0, 10, 0, TRUE),             \* job 0x08, small core 2
      MakeFrame(W32(4660, 22136), 0, 136, 1, TRUE),             \* job id byte 0x88
      SubSeq(MakeFrame(W32(4660, 22136), 0, 56, 1, TRUE), 1, 7),                  \* short read
      << RxPreamble1, RxPreamble0 >> \o SubSeq(MakeFrame(W32(0, 1), 0, 56, 1, TRUE), 3, 11) }

\* the chain puts a result frame into the empty UART receive buffer
AsicEmit ==
    /\ ~uart_pending
    /\ uart_pending' = TRUE
    /\ UNCHANGED << asic_response_buffer, received, asic_result, consec_timeouts,
                    timeout_logged >>
    /\ UNCHANGED << stratum_vars, sender_vars, receiver_vars, codec_vars, unit_vars >>

\* SERIAL_rx writes the bytes it received over the start of the buffer
Overlay(old, f) ==
    [ i \in 1 .. ResultFrameLen |-> IF i <= Len(f) THEN f[i] ELSE old[i] ]

\* the test "received != 11 || buffer[0] != 0xAA || buffer[1] != 0x55"
\* mutant: only the length is tested
RxInvalidLengthOnly(len, buf) == len # ResultFrameLen

RxInvalid(len, buf) ==
    \/ len # ResultFrameLen
    \/ buf[1] # RxPreamble0
    \/ buf[2] # RxPreamble1

\* BM1366_receive_work, called at the top of BM1366_proccess_work
ReceiveWork(F) ==
    /\ rpc = "recv"
    /\ rpc' = "ret"
    /\ \/ \* received < 0
          /\ received' = -1
          /\ asic_result' = "NULL"
          /\ consec_timeouts' = 0
          /\ UNCHANGED << uart_pending, asic_response_buffer, timeout_logged >>
       \/ \* received == 0
          /\ ~uart_pending
          /\ received' = 0
          /\ asic_result' = "NULL"
          /\ LET asic_timeout_counter == 0
             IN  timeout_logged' = IF asic_timeout_counter >= BM1366_TIMEOUT_THRESHOLD
                                   THEN TRUE ELSE timeout_logged
          /\ consec_timeouts' = IF consec_timeouts < BM1366_TIMEOUT_THRESHOLD
                                THEN consec_timeouts + 1 ELSE consec_timeouts
          /\ UNCHANGED << uart_pending, asic_response_buffer >>
       \/ \* received > 0
          /\ uart_pending
          /\ \E f \in F :
               LET buf == Overlay(asic_response_buffer, f)
               IN  /\ received' = Len(f)
                   /\ asic_response_buffer' = buf
                   /\ IF RxInvalid(Len(f), buf)
                      THEN /\ asic_result' = "NULL"
                           /\ uart_pending' = FALSE  \* SERIAL_clear_buffer
                      ELSE /\ asic_result' = "buffer"
                           /\ uart_pending' \in BOOLEAN  \* more may be waiting
          /\ consec_timeouts' = 0
          /\ UNCHANGED timeout_logged
    /\ UNCHANGED << r_valid, core_id, result, last_share, submit_tick >>
    /\ UNCHANGED << stratum_vars, sender_vars, codec_vars, unit_vars >>

\* fields of the packed asic_result read from the buffer
FrameNonce(buf)   == W32(buf[5] + 256 * buf[6], buf[3] + 256 * buf[4])
FrameJobId(buf)   == buf[8]
FrameVersion(buf) == buf[9] + 256 * buf[10]
FrameCrc(buf)     == buf[11]

\* mutant: the bytes are not swapped
reverse_uint16_identity(num) == num

reverse_uint16(num) == U16(BitOr(num \div 256, num * 256))

\* reverse_uint32: the four bytes in the opposite order
reverse_uint32(val) ==
    W32((val[2] % 256) * 256 + val[2] \div 256, (val[1] % 256) * 256 + val[1] \div 256)

\* core_id = (uint8_t)((reverse_uint32(asic_result->nonce) >> 25) & 0x7f)
CoreId(buf) == (reverse_uint32(FrameNonce(buf))[1] \div 512) % 128

\* job_id = asic_result->job_id & 0xf8
ResultJobId(buf) == BitAnd(FrameJobId(buf), JobIdMask)

\* if (asic_result == NULL) return NULL; otherwise the fields are taken
\* from the frame and core_stats[core_id].nonce_count is incremented
ProccessWorkNullTest ==
    /\ rpc = "ret"
    /\ rpc' = IF asic_result = "NULL" THEN "recv" ELSE "check"
    /\ core_id' = IF asic_result = "NULL" THEN NoCore ELSE CoreId(asic_response_buffer)
    /\ received' = 0
    /\ asic_result' = "NULL"
    /\ UNCHANGED << uart_pending, asic_response_buffer, consec_timeouts, timeout_logged >>
    /\ UNCHANGED << r_valid, result, last_share, submit_tick >>
    /\ UNCHANGED << stratum_vars, sender_vars, codec_vars, unit_vars >>

\* what the read of valid_jobs[job_id] can yield: the entry, or, past the
\* end of the table, whatever the memory behind it holds
ValidRead(job_id) ==
    IF job_id \in Slots THEN { valid_jobs[job_id] } ELSE { 0, 1 }

\* what the read of active_jobs[job_id]->version can yield
VersionRead(job_id) ==
    IF job_id \in Slots /\ active_jobs[job_id] # NoJob
    THEN IF \E i \in 1 .. Len(freed) : freed[i] = active_jobs[job_id].uid
         THEN { active_jobs[job_id].version } \cup GarbageVersions
         ELSE { active_jobs[job_id].version }
    ELSE GarbageVersions

\* if (GLOBAL_STATE->valid_jobs[job_id] == 0) return NULL;
CheckValid ==
    /\ rpc = "check"
    /\ \E v \in ValidRead(ResultJobId(asic_response_buffer)) :
         /\ r_valid' = v
         /\ rpc' = IF v = 0 THEN "recv" ELSE "read"
         /\ core_id' = IF v = 0 THEN NoCore ELSE core_id
         /\ UNCHANGED result
    /\ UNCHANGED << last_share, submit_tick >>
    /\ UNCHANGED << stratum_vars, sender_vars, serial_vars, codec_vars, unit_vars >>

\* rolled_version = active_jobs[job_id]->version | version_bits; return &result
ReadActive ==
    /\ rpc = "read"
    /\ \E base \in VersionRead(ResultJobId(asic_response_buffer)) :
         LET version_bits == reverse_uint16(FrameVersion(asic_response_buffer)) * Pow2(13)
         IN  result' = [ job_id |-> ResultJobId(asic_response_buffer),
                         nonce  |-> FrameNonce(asic_response_buffer),
                         rolled_version |-> BitOr(base, version_bits) ]
    /\ rpc' = "task"
    /\ core_id' = NoCore
    /\ UNCHANGED << r_valid, last_share, submit_tick >>
    /\ UNCHANGED << stratum_vars, sender_vars, serial_vars, codec_vars, unit_vars >>

(***************************************************************************)
(* The result task: looks the job up in the registry, drops results of a   *)
(* stale epoch before test_nonce, and submits a share when the nonce meets *)
(* the pool difficulty (the hash is not modelled: either outcome).         *)
(***************************************************************************)
Stale(job) == job.epoch < abandon_epoch

ResultTask ==
    /\ rpc = "task"
    /\ rpc' = "recv"
    /\ \/ /\ result.job_id \in Slots
          /\ valid_jobs[result.job_id] = 1
          /\ ~Stale(active_jobs[result.job_id])
          /\ last_share' = [ notif   |-> active_jobs[result.job_id].notif,
                             nonce   |-> result.nonce,
                             version |-> result.rolled_version ]
          /\ submit_tick' = 1 - submit_tick
       \/ UNCHANGED << last_share, submit_tick >>
    /\ r_valid' = 0
    /\ UNCHANGED << result, core_id >>
    /\ UNCHANGED << stratum_vars, sender_vars, serial_vars, codec_vars, unit_vars >>

(***************************************************************************)
(* The wire codec on its own: a header byte and a payload are drawn and    *)
(* _send_BM1366 is applied to them.                                        *)
(***************************************************************************)
ByteSamples == { 0, 20, 255 }

RECURSIVE SeqsUpTo(_, _)
SeqsUpTo(S, n) ==
    IF n = 0 THEN { << >> }
    ELSE LET shorter == SeqsUpTo(S, n - 1)
         IN  shorter \cup { Append(q, b) : q \in shorter, b \in S }

PayloadSet ==
    SeqsUpTo(ByteSamples, MaxPayload)
        \cup { << 0, TICKET_MASK, 0, 0, 0, 255 >>, [ i \in 1 .. LongPayload |-> i % 256 ] }

CodecSend ==
    /\ tx = << >>
    /\ tx' = << send_BM1366(cmd_header, cmd_data) >>
    /\ UNCHANGED << id, active_jobs, valid_jobs, valid_jobs_lock, spc, next_bm_job, freed >>
    /\ UNCHANGED << stratum_vars, serial_vars, receiver_vars, codec_vars, unit_vars >>

(***************************************************************************)
(* Version rolling.  increment_bitmask works on uint32_t; a value is held  *)
(* as W32 and the operators below are the C operators on two half words.   *)
(***************************************************************************)
And32(a, b) == W32(BitAnd(a[1], b[1]), BitAnd(a[2], b[2]))
Or32(a, b)  == W32(BitOr(a[1], b[1]), BitOr(a[2], b[2]))
Not32(a)    == W32(65535 - a[1], 65535 - a[2])
Xor32(a, b) == And32(Or32(a, b), Not32(And32(a, b)))
\* a + b as a uint32_t
Add32(a, b) ==
    LET lo == a[2] + b[2]
        hi == a[1] + b[1] + (lo \div 65536)
    IN  W32(hi % 65536, lo % 65536)
\* -a as a uint32_t
Neg32(a) == Add32(Not32(a), W32(0, 1))
\* a << 1 as a uint32_t
Shl32(a) == Add32(a, a)
Zero32 == W32(0, 0)

RECURSIVE increment_bitmask(_, _)
increment_bitmask(value, mask) ==
    IF mask = Zero32 THEN value
    ELSE LET carry     == Add32(And32(value, mask), And32(mask, Neg32(mask)))
             overflow  == And32(carry, Not32(mask))
             new_value == Or32(And32(value, Not32(mask)), And32(carry, mask))
         IN  IF overflow # Zero32
             THEN increment_bitmask(new_value, Shl32(overflow))
             ELSE new_value

\* version masks: none, the BIP 320 mask 0x1FFFE000, two adjacent bits, bits
\* with a gap of one and of two, the two top bits, one bit
MaskSamples ==
    { Zero32, W32(8191, 57344), W32(0, 6), W32(0, 5), W32(0, 9), W32(49152, 0), W32(0, 16) }

\* block versions: 0x20000000, 0x3FFFE000 (every BIP 320 bit set), 0, 6,
\* 0x20000009, 0xFFFFFFFF
VersionSamples ==
    { W32(8192, 0), W32(16383, 57344), Zero32, W32(0, 6), W32(8192, 9), W32(65535, 65535) }

\* construct_bm_job: rolled_version = increment_bitmask(rolled_version, version_mask)
RollVersion ==
    /\ bm_trace # << >>
    /\ Len(bm_trace) <= MaxRolls
    /\ bm_trace' = Append(bm_trace, increment_bitmask(bm_trace[Len(bm_trace)], bm_mask))
    /\ UNCHANGED bm_mask
    /\ UNCHANGED << stratum_vars, sender_vars, serial_vars, receiver_vars, codec_vars >>
    /\ UNCHANGED << nonce_vars, session_vars, line_vars, parse_vars, pll_vars, chip_vars >>

(***************************************************************************)
(* test_nonce_value (mining.c).  The 80-byte header is laid out as the     *)
(* code lays it out; the double SHA-256 and le256todouble of the library   *)
(* are stood for by a fixed function of the header bytes, and the double   *)
(* difficulty by an integer.                                               *)
(***************************************************************************)
RECURSIVE ByteSum(_, _, _)
ByteSum(bytes, i, j) ==
    IF i > j THEN 0
    ELSE IF i = j THEN (bytes[i] * ((i % 7) + 1)) % 1009
    ELSE LET mid == (i + j) \div 2
         IN  (ByteSum(bytes, i, mid) + ByteSum(bytes, mid + 1, j)) % 1009

\* header[80] of test_nonce_value
TestNonceHeader(job, nonce, rolled_version) ==
    LE32(rolled_version) \o [ i \in 1 .. 32 |-> job.prev_block_hash ]
        \o [ i \in 1 .. 32 |-> job.merkle_root ]
        \o LE32(job.ntime) \o LE32(job.target) \o LE32W(nonce)

\* ds = truediffone / le256todouble(sha256(sha256(header)))
HeaderDifficulty(header) == ByteSum(header, 1, Len(header)) % 5

\* the value test_nonce_value returns
test_nonce_value(job, nonce, rolled_version) ==
    HeaderDifficulty(TestNonceHeader(job, nonce, rolled_version))

TestJobs ==
    { [ prev_block_hash |-> 17, merkle_root |-> 34, ntime |-> 1700000001, target |-> 486604799 ],
      [ prev_block_hash |-> 17, merkle_root |-> 51, ntime |-> 1700000002, target |-> 486604799 ] }
TestNonces == { W32(0, 1), W32(4660, 22136), W32(65535, 65535) }
TestVersions == { 536870912, 538968064 }

\* One call of test_nonce_value: the header is hashed, and a share above
\* difficulty 1 that beats best_diff is noted in the statics of mining.c.
TestNonceCall ==
    /\ Len(tn_log) < MaxTests
    /\ \E job \in TestJobs, nonce \in TestNonces, rolled_version \in TestVersions :
         LET ds   == test_nonce_value(job, nonce, rolled_version)
             best == [ diff |-> best_diff, nonce |-> best_nonce, version |-> best_version ]
             beat == ds > 1 /\ ds > best_diff
         IN  /\ best_diff'    = IF beat THEN ds ELSE best_diff
             /\ best_nonce'   = IF beat THEN nonce ELSE best_nonce
             /\ best_version' = IF beat THEN rolled_version ELSE best_version
             /\ tn_log' = Append(tn_log,
                   [ job |-> job, nonce |-> nonce, rolled_version |-> rolled_version,
                     ds |-> ds, before |-> best,
                     after |-> [ diff |-> best_diff', nonce |-> best_nonce',
                                 version |-> best_version' ] ])
    /\ UNCHANGED << stratum_vars, sender_vars, serial_vars, receiver_vars, codec_vars >>
    /\ UNCHANGED << bitmask_vars, session_vars, line_vars, parse_vars, pll_vars, chip_vars >>

(***************************************************************************)
(* Stratum requests and the classification of responses (stratum_api.c).   *)
(* Every request function formats its message with send_uid++, a load and  *)
(* a store of the static counter that another task can come between.  The  *)
(* startup sequence of the stratum task and the submits of the result task *)
(* are those of the protocol description: configure, subscribe, authorize, *)
(* optionally suggest_difficulty; submits once authorize has been sent.    *)
(***************************************************************************)
\* ids the response parser compares with (stratum_api.h)
STRATUM_ID_CONFIGURE == 1
STRATUM_ID_SUBSCRIBE == 2
\* if (parsed_id < 5) result = STRATUM_RESULT_SETUP
SetupIdLimit == 5

NoRequest == [ kind |-> "none", id |-> 0 ]
StartupKinds == << "configure", "subscribe", "authorize", "suggest_difficulty" >>

\* the value send_uid++ stores
NextUid(uid) == uid + 1

\* the load of send_uid++ in the sprintf of a request function
RequestBegin(t, kind) ==
    /\ uid_reg[t] = NoRequest
    /\ uid_reg' = [ uid_reg EXCEPT ![t] = [ kind |-> kind, id |-> send_uid ] ]

StratumRequestBegin ==
    /\ stage < Len(StartupKinds)
    /\ RequestBegin("stratum", StartupKinds[stage + 1])
    /\ stage' = stage + 1
    /\ UNCHANGED << send_uid, requests, n_submits, n_resets, last_response >>
    /\ UNCHANGED << stratum_vars, sender_vars, serial_vars, receiver_vars, codec_vars >>
    /\ UNCHANGED << bitmask_vars, nonce_vars, line_vars, parse_vars, pll_vars, chip_vars >>

\* the session goes on without mining.suggest_difficulty
SkipSuggestDifficulty ==
    /\ stage = 3
    /\ uid_reg["stratum"] = NoRequest
    /\ stage' = 4
    /\ UNCHANGED << send_uid, uid_reg, requests, n_submits, n_resets, last_response >>
    /\ UNCHANGED << stratum_vars, sender_vars, serial_vars, receiver_vars, codec_vars >>
    /\ UNCHANGED << bitmask_vars, nonce_vars, line_vars, parse_vars, pll_vars, chip_vars >>

\* STRATUM_V1_submit_share called by the result task
SubmitBegin ==
    /\ n_submits < MaxSubmits
    /\ \E i \in 1 .. Len(requests) : requests[i].kind = "authorize"
    /\ RequestBegin("result", "submit")
    /\ n_submits' = n_submits + 1
    /\ UNCHANGED << send_uid, requests, stage, n_resets, last_response >>
    /\ UNCHANGED << stratum_vars, sender_vars, serial_vars, receiver_vars, codec_vars >>
    /\ UNCHANGED << bitmask_vars, nonce_vars, line_vars, parse_vars, pll_vars, chip_vars >>

\* the store of send_uid++ and the write of the message to the socket
RequestEnd(t) ==
    /\ uid_reg[t] # NoRequest
    /\ send_uid' = NextUid(uid_reg[t].id)
    /\ requests' = Append(requests, uid_reg[t])
    /\ uid_reg' = [ uid_reg EXCEPT ![t] = NoRequest ]
    /\ UNCHANGED << stage, n_submits, n_resets, last_response >>
    /\ UNCHANGED << stratum_vars, sender_vars, serial_vars, receiver_vars, codec_vars >>
    /\ UNCHANGED << bitmask_vars, nonce_vars, line_vars, parse_vars, pll_vars, chip_vars >>

StratumRequestEnd == RequestEnd("stratum")
SubmitEnd == RequestEnd("result")

\* send_uid = 1
ResetUidValue == 1

\* STRATUM_V1_reset_uid, called by the stratum task when it reconnects
STRATUM_V1_reset_uid ==
    /\ n_resets < MaxResets
    /\ uid_reg["stratum"] = NoRequest
    /\ stage > 0
    /\ send_uid' = ResetUidValue
    /\ requests' = << >>
    /\ stage' = 0
    /\ n_resets' = n_resets + 1
    /\ UNCHANGED << uid_reg, n_submits, last_response >>
    /\ UNCHANGED << stratum_vars, sender_vars, serial_vars, receiver_vars, codec_vars >>
    /\ UNCHANGED << bitmask_vars, nonce_vars, line_vars, parse_vars, pll_vars, chip_vars >>

\* what the pool answers to a request of the kind
ResultShapes(kind) ==
    CASE kind = "configure" -> { "object" }
      [] kind = "subscribe" -> { "array" }
      [] OTHER              -> { "true", "false" }

\* the branch of STRATUM_V1_parse for a line without "method": error_json is
\* "absent" (no such key), "null" or "array"; result_json is "absent",
\* "true", "false", "array" (three elements or more), "short_array" (fewer
\* than three) or "object"
ClassifyResult(parsed_id, result_json, error_json) ==
    IF result_json = "absent" THEN "STRATUM_UNKNOWN"
    ELSE IF error_json # "null"
    THEN IF parsed_id < SetupIdLimit THEN "STRATUM_RESULT_SETUP" ELSE "STRATUM_RESULT"
    ELSE IF result_json \in { "true", "false" }
    THEN IF parsed_id < SetupIdLimit THEN "STRATUM_RESULT_SETUP" ELSE "STRATUM_RESULT"
    ELSE IF parsed_id = STRATUM_ID_SUBSCRIBE THEN "STRATUM_RESULT_SUBSCRIBE"
    ELSE IF parsed_id = STRATUM_ID_CONFIGURE /\ result_json = "object"
    THEN "STRATUM_RESULT_VERSION_MASK"
    ELSE "STRATUM_UNKNOWN"

\* the pool answers one of the requests of the session and the stratum task
\* parses the line
PoolResponse ==
    /\ \E i \in 1 .. Len(requests) :
         \E result_json \in ResultShapes(requests[i].kind), error_json \in { "null", "array" } :
             last_response' =
                 [ request |-> requests[i], result |-> result_json,
                   method |-> ClassifyResult(requests[i].id, result_json, error_json) ]
    /\ UNCHANGED << send_uid, uid_reg, requests, stage, n_submits, n_resets >>
    /\ UNCHANGED << stratum_vars, sender_vars, serial_vars, receiver_vars, codec_vars >>
    /\ UNCHANGED << bitmask_vars, nonce_vars, line_vars, parse_vars, pll_vars, chip_vars >>

(***************************************************************************)
(* STRATUM_V1_receive_jsonrpc_line (stratum_api.c).  json_rpc_buffer is a  *)
(* C string in an array of BufCap bytes (<< >> is the NULL pointer, 0 the   *)
(* terminator, 10 the newline); the str* and mem* calls are the library's, *)
(* applied to that array.  The call is cut at its blocking recv.           *)
(***************************************************************************)
NUL == 0
NL  == 10
BufCap == MaxStream + 3

ZeroBuffer == [ i \in 1 .. BufCap |-> NUL ]

\* strlen(buf)
CStrLen(buf) == (CHOOSE i \in 1 .. BufCap : buf[i] = NUL /\ \A h \in 1 .. (i - 1) : buf[h] # NUL) - 1
\* the string held in buf
CStr(buf) == IF buf = << >> THEN << >> ELSE SubSeq(buf, 1, CStrLen(buf))
\* strstr(buf, "\n") != NULL
HasNewline(buf) == \E i \in 1 .. CStrLen(buf) : buf[i] = NL

\* strncat(buf, recv_buffer, nbytes)
StrNCat(buf, chunk) ==
    LET old == CStrLen(buf)
        n   == Len(chunk)
    IN  [ i \in 1 .. BufCap |->
            IF i <= old THEN buf[i]
            ELSE IF i <= old + n THEN chunk[i - old]
            ELSE IF i = old + n + 1 THEN NUL
            ELSE buf[i] ]

\* tok = strtok(buf, "\n"); line = strdup(tok); then the memmove or strcpy
\* that drops the line from the buffer.  strtok skips newlines at the start
\* and finds no token in a buffer of newlines only: strdup(NULL).
ExtractLine(buf) ==
    LET buflen == CStrLen(buf)
        starts == { i \in 1 .. buflen : buf[i] # NL }
    IN  IF starts = { }
        THEN [ crash |-> TRUE, line |-> << >>, buf |-> buf ]
        ELSE LET start == CHOOSE i \in starts : \A h \in starts : i <= h
                 ends  == { i \in start .. buflen : buf[i] = NL }
                 end   == IF ends = { } THEN buflen + 1
                          ELSE CHOOSE i \in ends : \A h \in ends : i <= h
                 tokd  == [ buf EXCEPT ![end] = NUL ]
                 line  == SubSeq(buf, start, end - 1)
                 len   == Len(line)
             IN  [ crash |-> FALSE,
                   line  |-> line,
                   buf   |-> IF buflen > len + 1
                             THEN [ i \in 1 .. BufCap |->
                                      IF i <= buflen - len + 1 /\ i + len + 1 <= BufCap
                                      THEN tokd[i + len + 1]
                                      ELSE tokd[i] ]
                             ELSE [ tokd EXCEPT ![1] = NUL ] ]

\* the tail of the call once the buffer holds a newline
ReturnLine(buf) ==
    LET x == ExtractLine(buf)
    IN  /\ json_rpc_buffer' = x.buf
        /\ lpc' = IF x.crash THEN "crashed" ELSE "idle"
        /\ lines_out' = IF x.crash THEN lines_out ELSE Append(lines_out, x.line)

\* entry of the call up to the first recv
ReceiveLineCall ==
    /\ lpc = "idle"
    /\ LET buf == IF json_rpc_buffer = << >> THEN ZeroBuffer ELSE json_rpc_buffer
       IN  IF HasNewline(buf)
           THEN ReturnLine(buf)
           ELSE /\ json_rpc_buffer' = buf
                /\ lpc' = "loop"
                /\ UNCHANGED lines_out
    /\ UNCHANGED << sock_stream, line_input, conn, discarded >>
    /\ UNCHANGED << stratum_vars, sender_vars, serial_vars, receiver_vars, codec_vars >>
    /\ UNCHANGED << bitmask_vars, nonce_vars, session_vars, parse_vars, pll_vars, chip_vars >>

\* recv delivers the next nbytes of the stream
RecvChunk ==
    /\ lpc = "loop"
    /\ \E nbytes \in 1 .. Len(sock_stream) :
         LET buf == StrNCat(json_rpc_buffer, SubSeq(sock_stream, 1, nbytes))
         IN  /\ sock_stream' = SubSeq(sock_stream, nbytes + 1, Len(sock_stream))
             /\ IF HasNewline(buf)
                THEN ReturnLine(buf)
                ELSE /\ json_rpc_buffer' = buf
                     /\ UNCHANGED << lpc, lines_out >>
    /\ UNCHANGED << line_input, conn, discarded >>
    /\ UNCHANGED << stratum_vars, sender_vars, serial_vars, receiver_vars, codec_vars >>
    /\ UNCHANGED << bitmask_vars, nonce_vars, session_vars, parse_vars, pll_vars, chip_vars >>

\* mutant: the buffer is kept
BufferKeptOnRecvError(buf) == buf

\* free(json_rpc_buffer); json_rpc_buffer = 0;
BufferOnRecvError(buf) == << >>

\* streams of the connection made after a failure (bytes 'c' and newline)
ReconnectStreams == { << 99, NL >>, << 99, 99, NL, 99 >> }

\* recv returns -1: the call returns 0; the stratum task then reconnects and
\* the new connection delivers its own stream
RecvError ==
    /\ lpc = "loop"
    /\ conn <= MaxReconnects
    /\ json_rpc_buffer' = BufferOnRecvError(json_rpc_buffer)
    /\ lpc' = "idle"
    /\ conn' = conn + 1
    /\ discarded' = CStrLen(json_rpc_buffer)
    /\ sock_stream' \in ReconnectStreams
    /\ line_input' = sock_stream'
    /\ lines_out' = << >>
    /\ UNCHANGED << stratum_vars, sender_vars, serial_vars, receiver_vars, codec_vars >>
    /\ UNCHANGED << bitmask_vars, nonce_vars, session_vars, parse_vars, pll_vars, chip_vars >>

StreamBytes == { 97, 98, NL }

\* the peer closes the connection; what it sent before can still be read
PeerClose ==
    /\ ~peer_closed
    /\ peer_closed' = TRUE
    /\ UNCHANGED << zero_reads, line_vars >>
    /\ UNCHANGED << stratum_vars, sender_vars, serial_vars, receiver_vars, codec_vars >>
    /\ UNCHANGED << bitmask_vars, nonce_vars, session_vars, parse_vars, pll_vars >>
    /\ UNCHANGED << ramp_vars, mask_vars, init_vars, bestdiff_vars, en2_vars >>

\* recv returns 0 at the end of a closed connection: nbytes is not -1,
\* realloc_json_buffer(0) and strncat of no bytes leave the buffer as it is,
\* and the loop goes on as long as the buffer has no newline
RecvZero ==
    /\ lpc = "loop"
    /\ peer_closed
    /\ sock_stream = << >>
    /\ zero_reads' = IF zero_reads < MaxZeroReads THEN zero_reads + 1 ELSE zero_reads
    /\ LET buf == StrNCat(json_rpc_buffer, << >>)
       IN  IF HasNewline(buf)
           THEN ReturnLine(buf)
           ELSE /\ json_rpc_buffer' = buf
                /\ UNCHANGED << lpc, lines_out >>
    /\ UNCHANGED << sock_stream, line_input, conn, discarded, peer_closed >>
    /\ UNCHANGED << stratum_vars, sender_vars, serial_vars, receiver_vars, codec_vars >>
    /\ UNCHANGED << bitmask_vars, nonce_vars, session_vars, parse_vars, pll_vars >>
    /\ UNCHANGED << ramp_vars, mask_vars, init_vars, bestdiff_vars, en2_vars >>

(***************************************************************************)
(* STRATUM_V1_parse on one received line (stratum_api.c 218-377).  A line  *)
(* is described by what cJSON finds in it: whether it parses at all, its   *)
(* "id", "method", "result", "error", and the shape of "params".  What the *)
(* stratum task does with the parsed message is that of the protocol       *)
(* description: unknown messages are skipped, client.reconnect reconnects. *)
(***************************************************************************)
JsonLines ==
    [ valid  : BOOLEAN,
      id     : { -1 },
      method : { "mining.notify", "mining.set_difficulty", "mining.set_version_mask",
                 "client.reconnect", "mining.ping" },
      params : { "absent", "well_formed", "short", "non_string", "too_many_branches" },
      result : { "absent" },
      error  : { "absent" } ]
    \cup
    [ valid  : BOOLEAN,
      id     : { 2, 7 },
      method : { "absent" },
      params : { "absent" },
      result : { "absent", "true" },
      error  : { "null", "array" } ]

\* what cJSON_GetObjectItem finds in a NULL object
NullJson ==
    [ valid |-> FALSE, id |-> -1, method |-> "absent", params |-> "absent",
      result |-> "absent", error |-> "absent" ]

\* mutant: the text is read as if it had parsed
cJSON_ParseAnything(stratum_json) == stratum_json

\* json = cJSON_Parse(stratum_json): NULL for text that is no JSON
cJSON_Parse(stratum_json) == IF stratum_json.valid THEN stratum_json ELSE NullJson

NoMessage ==
    [ method |-> "STRATUM_UNKNOWN", message_id |-> 0, response_success |-> FALSE,
      mining_notification |-> "NULL", should_abandon_work |-> FALSE,
      new_difficulty |-> 0, version_mask |-> 0 ]

\* the method the line is dispatched to
ParsedMethod(json) ==
    CASE json.method = "mining.notify"           -> "MINING_NOTIFY"
      [] json.method = "mining.set_difficulty"   -> "MINING_SET_DIFFICULTY"
      [] json.method = "mining.set_version_mask" -> "MINING_SET_VERSION_MASK"
      [] json.method = "client.reconnect"        -> "CLIENT_RECONNECT"
      [] json.method = "absent" -> ClassifyResult(json.id, json.result, json.error)
      [] OTHER -> "STRATUM_UNKNOWN"

\* how the call ends: it returns; it calls abort() (too many Merkle
\* branches); or it reads through a NULL pointer, which the build answers
\* with a panic or with a message made of whatever was read
ParseEndings(json) ==
    LET method == ParsedMethod(json)
    IN  IF method \in { "MINING_NOTIFY", "MINING_SET_DIFFICULTY", "MINING_SET_VERSION_MASK" }
        THEN CASE json.params = "well_formed" -> { "returned" }
               [] json.params = "too_many_branches" ->
                     IF method = "MINING_NOTIFY" THEN { "abort" } ELSE { "returned" }
               [] OTHER -> { "panic", "garbage" }
        ELSE { "returned" }

\* the subscribe branch leaves by "goto done" when the result array has no
\* element 2 (extranonce2_len), and with it no element 1 either
SubscribeIncomplete(json) ==
    /\ json.method = "absent"
    /\ json.error = "null"
    /\ json.result = "short_array"
    /\ json.id = STRATUM_ID_SUBSCRIBE

\* message->response_success after the branch for a line without "method";
\* the configure branch and the last else do not assign it
ResponseSuccess(json, before) ==
    IF json.result = "absent" THEN FALSE
    ELSE IF json.error # "null" THEN FALSE
    ELSE IF json.result \in { "true", "false" } THEN json.result = "true"
    ELSE IF json.id = STRATUM_ID_SUBSCRIBE THEN json.result # "short_array"
    ELSE before

\* the message STRATUM_V1_parse leaves behind
STRATUM_V1_parse(msg, stratum_json) ==
    LET json   == cJSON_Parse(stratum_json)
        method == ParsedMethod(json)
    IN  [ msg EXCEPT
            !.message_id = json.id,
            !.method = IF SubscribeIncomplete(json) THEN @ ELSE method,
            !.response_success =
                IF json.method = "absent" THEN ResponseSuccess(json, @) ELSE @,
            !.mining_notification = IF method = "MINING_NOTIFY" THEN "allocated" ELSE @,
            !.should_abandon_work = IF method = "MINING_NOTIFY" THEN TRUE ELSE @,
            !.new_difficulty = IF method = "MINING_SET_DIFFICULTY" THEN 512 ELSE @,
            !.version_mask = IF method = "MINING_SET_VERSION_MASK" THEN 536862720 ELSE @ ]

\* the stratum task takes a line, parses it into a fresh message and acts
ParseLine ==
    /\ fw = "running"
    /\ \E stratum_json \in JsonLines :
         \E ending \in ParseEndings(cJSON_Parse(stratum_json)) :
             LET m == STRATUM_V1_parse(NoMessage, stratum_json)
             IN  /\ parse_in' = stratum_json
                 /\ message' = m
                 /\ fw' = IF ending \in { "abort", "panic" } THEN "halted" ELSE "running"
                 /\ task_action' =
                        CASE ending \in { "abort", "panic" } -> "none"
                          [] m.method = "CLIENT_RECONNECT" -> "reconnect"
                          [] m.method = "STRATUM_UNKNOWN" -> "skip"
                          [] OTHER -> "apply"
                 /\ sess' =
                        IF ending # "returned" THEN sess
                        ELSE CASE m.method = "MINING_SET_DIFFICULTY" ->
                                     [ sess EXCEPT !.difficulty = m.new_difficulty ]
                               [] m.method = "MINING_SET_VERSION_MASK" ->
                                     [ sess EXCEPT !.version_mask = m.version_mask ]
                               [] OTHER -> sess
                 /\ sess_prev' = sess
    /\ UNCHANGED << stratum_vars, sender_vars, serial_vars, receiver_vars, codec_vars >>
    /\ UNCHANGED << bitmask_vars, nonce_vars, session_vars, line_vars, pll_vars, chip_vars >>

\* values of stratum_method
StratumMethods ==
    { "STRATUM_UNKNOWN", "MINING_NOTIFY", "MINING_SET_DIFFICULTY", "MINING_SET_VERSION_MASK",
      "CLIENT_RECONNECT", "STRATUM_RESULT", "STRATUM_RESULT_SETUP",
      "STRATUM_RESULT_VERSION_MASK", "STRATUM_RESULT_SUBSCRIBE" }

\* lines without "method": answers to configure (id 1), to subscribe (id 2),
\* to the last setup request (id 4) and to later requests (ids 5 and 7)
ResponseLines ==
    [ valid  : { TRUE },
      id     : { 1, 2, 4, 5, 7 },
      method : { "absent" },
      params : { "absent" },
      result : { "absent", "true", "false", "array", "short_array", "object" },
      error  : { "absent", "null", "array" } ]

\* STRATUM_V1_parse called on a response line with the message the caller
\* hands in
ParseResponse ==
    /\ fw = "running"
    /\ \E stratum_json \in ResponseLines :
         /\ parse_in' = stratum_json
         /\ message' = STRATUM_V1_parse(message, stratum_json)
    /\ UNCHANGED << sess, sess_prev, task_action, fw >>
    /\ UNCHANGED << stratum_vars, sender_vars, serial_vars, receiver_vars, codec_vars >>
    /\ UNCHANGED << bitmask_vars, nonce_vars, session_vars, line_vars, pll_vars, chip_vars >>

(***************************************************************************)
(* BM1366_send_hash_frequency (bm1366.c).  Frequencies are in hundredths   *)
(* of a MHz, so that the float expressions of the code are exact integer   *)
(* or rational expressions here.                                           *)
(***************************************************************************)
FbMin == 144
FbMax == 235
\* float min_difference = 10, in hundredths of a MHz
MinDifferenceStart == 1000

\* the loops with postdiv2_loop <= postdiv1_loop as the inner condition
LoopOrderEqualPosts ==
    LET OfRef(r) ==
            LET RECURSIVE OfPost1(_)
                OfPost1(p1) ==
                    IF p1 = 0 THEN << >>
                    ELSE [ p2 \in 1 .. p1 |-> [ ref |-> r, post1 |-> p1, post2 |-> p2 ] ]
                             \o OfPost1(p1 - 1)
            IN  OfPost1(7)
    IN  OfRef(2) \o OfRef(1)

\* the divider triples in the order the three loops visit them: refdiv 2
\* down to 1, postdiv1 7 down to 1, postdiv2 1 up to postdiv1 - 1
LoopOrder ==
    LET OfRef(r) ==
            LET RECURSIVE OfPost1(_)
                OfPost1(p1) ==
                    IF p1 = 0 THEN << >>
                    ELSE [ p2 \in 1 .. (p1 - 1) |-> [ ref |-> r, post1 |-> p1, post2 |-> p2 ] ]
                             \o OfPost1(p1 - 1)
            IN  OfPost1(7)
    IN  OfRef(2) \o OfRef(1)

DivProduct(c) == c.ref * c.post1 * c.post2

\* round(postdiv1 * postdiv2 * target_freq * refdiv / 25.0); freq is target_freq
TempFbDivider(c, freq) == (2 * DivProduct(c) * freq + 2500) \div 5000

Abs(a) == IF a < 0 THEN 0 - a ELSE a

\* fabs(freq - 25.0 * fb / (ref * post1 * post2)), times the product
FreqDiffTimesProduct(c, fb, freq) == Abs(freq * DivProduct(c) - 2500 * fb)

\* the search without the test of temp_fb_divider against 144 and 235
AcceptedAnyFb(c, freq) ==
    FreqDiffTimesProduct(c, TempFbDivider(c, freq), freq) < MinDifferenceStart * DivProduct(c)

\* if (temp_fb_divider >= 144 && temp_fb_divider <= 235) ... if (freq_diff < min_difference)
Accepted(c, freq) ==
    LET fb == TempFbDivider(c, freq)
    IN  /\ fb >= FbMin
        /\ fb <= FbMax
        /\ FreqDiffTimesProduct(c, fb, freq) < MinDifferenceStart * DivProduct(c)

\* static float current_frequency = 56.25, as << numerator, denominator >>
InitialFrequency == << 5625, 1 >>

\* freqbuf with the command byte left as it is initialised
FreqBufLowVco(d) ==
    IF d.found
    THEN << 0, 8, 64, d.fb, d.ref, ((d.post1 - 1) % 16) * 16 + ((d.post2 - 1) % 16) >>
    ELSE << 0, 8, 64, 160, 2, 65 >>

\* the registers as they stand in freqbuf before the search: 0xA0, 0x02, 0x41
DefaultDividers == [ fb |-> 160, ref |-> 2, post1 |-> 5, post2 |-> 2, found |-> FALSE ]

\* the three loops: every loop stops as soon as fb_divider is set, so the
\* first accepted triple of the loop order is the one kept
SearchDividers(freq) ==
    LET hits == { i \in 1 .. Len(LoopOrder) : Accepted(LoopOrder[i], freq) }
    IN  IF hits = { } THEN DefaultDividers
        ELSE LET i == CHOOSE h \in hits : \A g \in hits : h <= g
             IN  [ fb |-> TempFbDivider(LoopOrder[i], freq), ref |-> LoopOrder[i].ref,
                   post1 |-> LoopOrder[i].post1, post2 |-> LoopOrder[i].post2, found |-> TRUE ]

\* freqbuf as it is handed to _send_BM1366
FreqBuf(d) ==
    IF d.found
    THEN << 0, 8, IF d.fb * 25 >= 2400 * d.ref THEN 80 ELSE 64, d.fb, d.ref,
            ((d.post1 - 1) % 16) * 16 + ((d.post2 - 1) % 16) >>
    ELSE << 0, 8, 64, 160, 2, 65 >>

\* target frequencies: the 6.25 MHz steps of the frequency ramp, some whole
\* numbers of MHz, and frequencies below and above what the dividers reach
TargetFreqs == { 625 * k : k \in 8 .. MaxFreqStep }
                   \cup { 31000, 48500, 52500, 57500 } \cup { 0, 2500, 4000, 300000 }

BM1366_send_hash_frequency ==
    /\ pll_dividers.fb = 0
    /\ LET d == SearchDividers(target_freq)
       IN  /\ pll_dividers' = d
           /\ tx' = << send_BM1366(TYPE_CMD + GROUP_ALL + CMD_WRITE, FreqBuf(d)) >>
           /\ current_frequency' = << 2500 * d.fb, d.ref * d.post1 * d.post2 >>
    /\ UNCHANGED target_freq
    /\ UNCHANGED << id, active_jobs, valid_jobs, valid_jobs_lock, spc, next_bm_job, freed >>
    /\ UNCHANGED << stratum_vars, serial_vars, receiver_vars, codec_vars >>
    /\ UNCHANGED << bitmask_vars, nonce_vars, session_vars, line_vars, parse_vars >>
    /\ UNCHANGED chip_vars

(***************************************************************************)
(* do_frequency_ramp_up (bm1366.c).  The running setpoint is a whole       *)
(* number of hundredths of a MHz once it is aligned; current_frequency,    *)
(* which the PLL write leaves at 25 fb / (ref post1 post2), is the pair    *)
(* << numerator, denominator >>.                                           *)
(***************************************************************************)
\* float step = 6.25
RampStep == 625

\* newf, the frequency BM1366_send_hash_frequency stores in current_frequency
NewFrequency(d) == << 2500 * d.fb, d.ref * d.post1 * d.post2 >>

\* the frame of one BM1366_send_hash_frequency call
HashFrequencyFrame(freq) ==
    send_BM1366(TYPE_CMD + GROUP_ALL + CMD_WRITE, FreqBuf(SearchDividers(freq)))

\* float direction = (target > current) ? step : -step, as "is it positive"
RampUp(current, target) == target * current[2] > current[1]

\* fmod(current, step) != 0
OffStep(current) == current[1] % (RampStep * current[2]) # 0

\* (direction > 0) ? ceil(current / step) * step : floor(current / step) * step
NextDividable(current, up) ==
    IF up
    THEN RampStep * ((current[1] + RampStep * current[2] - 1) \div (RampStep * current[2]))
    ELSE RampStep * (current[1] \div (RampStep * current[2]))

Min(a, b) == IF a < b THEN a ELSE b

\* the while loop: the setpoints it writes, in order
RECURSIVE RampLoop(_, _, _, _)
RampLoop(current, target, up, written) ==
    IF (up /\ current < target) \/ (~ up /\ current > target)
    THEN LET next_step == Min(RampStep, Abs(target - current))
             next      == IF up THEN current + next_step ELSE current - next_step
         IN  RampLoop(next, target, up, Append(written, next))
    ELSE written

\* every BM1366_send_hash_frequency argument of one do_frequency_ramp_up call
RampSetpoints(current, target) ==
    LET up      == RampUp(current, target)
        aligned == IF OffStep(current) THEN << NextDividable(current, up) >> ELSE << >>
        from    == IF OffStep(current) THEN NextDividable(current, up)
                   ELSE current[1] \div current[2]
    IN  RampLoop(from, target, up, aligned) \o << target >>

\* ramp targets: whole numbers of MHz, on and off the 6.25 MHz steps
RampTargets == { 2500 * k + e : k \in 2 .. MaxRampStep, e \in { 0, 1200 } }

\* values current_frequency can have when the ramp is entered: the boot
\* value, or what an earlier BM1366_send_hash_frequency left there
StartFrequencies == { InitialFrequency } \cup { NewFrequency(SearchDividers(t)) : t \in RampTargets }

do_frequency_ramp_up ==
    /\ ramp_writes = << >>
    /\ LET w == RampSetpoints(current_frequency, ramp_target)
       IN  /\ ramp_writes' = w
           /\ tx' = [ i \in 1 .. Len(w) |-> HashFrequencyFrame(w[i]) ]
           /\ target_freq' = ramp_target
           /\ pll_dividers' = SearchDividers(ramp_target)
           /\ current_frequency' = NewFrequency(SearchDividers(ramp_target))
    /\ UNCHANGED << ramp_start, ramp_target >>
    /\ UNCHANGED << id, active_jobs, valid_jobs, valid_jobs_lock, spc, next_bm_job, freed >>
    /\ UNCHANGED << stratum_vars, serial_vars, receiver_vars, codec_vars >>
    /\ UNCHANGED << bitmask_vars, nonce_vars, session_vars, line_vars, parse_vars >>
    /\ UNCHANGED << mask_vars, init_vars, bestdiff_vars, en2_vars, close_vars >>

(***************************************************************************)
(* BM1366_set_job_difficulty_mask (bm1366.c).                              *)
(***************************************************************************)
\* _largest_power_of_two: the largest power of two not above num
_largest_power_of_two(num) ==
    LET k == CHOOSE e \in 0 .. 30 : Pow2(e) <= num /\ (e = 30 \/ num < Pow2(e + 1))
    IN  Pow2(k)

\* _reverse_bits: bit k of the byte becomes bit 7 - k
_reverse_bits(value) ==
    Bit(value, 0) * 128 + Bit(value, 1) * 64 + Bit(value, 2) * 32 + Bit(value, 3) * 16
        + Bit(value, 4) * 8 + Bit(value, 5) * 4 + Bit(value, 6) * 2 + Bit(value, 7)

\* the mask bytes stored at job_difficulty_mask[2 + i] instead of [5 - i]
JobDifficultyMaskLowByteFirst(difficulty) ==
    LET mask == _largest_power_of_two(difficulty) - 1
        value(i) == (mask \div Pow2(8 * i)) % 256
    IN  << 0, TICKET_MASK, _reverse_bits(value(0)), _reverse_bits(value(1)),
           _reverse_bits(value(2)), _reverse_bits(value(3)) >>

\* job_difficulty_mask as it is handed to _send_BM1366: byte i of the mask,
\* bit-reversed, at index 5 - i
JobDifficultyMask(difficulty) ==
    LET mask == _largest_power_of_two(difficulty) - 1
        value(i) == (mask \div Pow2(8 * i)) % 256
    IN  << 0, TICKET_MASK, _reverse_bits(value(3)), _reverse_bits(value(2)),
           _reverse_bits(value(1)), _reverse_bits(value(0)) >>

\* requested difficulties: the small ones, and ones around the byte borders
\* of the mask up to INT_MAX
DifficultySamples ==
    (1 .. MaxDifficulty) \cup
    { 255, 256, 257, 511, 512, 1000, 65535, 65536, 65537, 100000, 16777215, 16777216,
      16777217, 33554432, 1073741823, 1073741824, 2147483647 }

BM1366_set_job_difficulty_mask ==
    /\ tx = << >>
    /\ tx' = << send_BM1366(TYPE_CMD + GROUP_ALL + CMD_WRITE, JobDifficultyMask(asic_difficulty)) >>
    /\ UNCHANGED asic_difficulty
    /\ UNCHANGED << id, active_jobs, valid_jobs, valid_jobs_lock, spc, next_bm_job, freed >>
    /\ UNCHANGED << stratum_vars, serial_vars, receiver_vars, codec_vars >>
    /\ UNCHANGED << bitmask_vars, nonce_vars, session_vars, line_vars, parse_vars, pll_vars >>
    /\ UNCHANGED << ramp_vars, init_vars, bestdiff_vars, en2_vars, close_vars >>

(***************************************************************************)
(* BM1366_init, _reset and _send_init (bm1366.c).  init_trace records the  *)
(* reset line, the delays and every frame handed to the UART, in order.    *)
(***************************************************************************)
GpioEvent(level)  == [ kind |-> "gpio", level |-> level, ms |-> 0, bytes |-> << >> ]
DelayEvent(ms)    == [ kind |-> "delay", level |-> 0, ms |-> ms, bytes |-> << >> ]
FrameEvent(bytes) == [ kind |-> "frame", level |-> 0, ms |-> 0, bytes |-> bytes ]

\* vTaskDelay(100 / portTICK_PERIOD_MS), in milliseconds
ResetDelayMs == 100

\* _reset
ResetEvents ==
    << GpioEvent(0), DelayEvent(ResetDelayMs), GpioEvent(1), DelayEvent(ResetDelayMs) >>

\* STRATUM_DEFAULT_VERSION_MASK, 0x1fffe000
STRATUM_DEFAULT_VERSION_MASK == W32(8191, 57344)

\* BM1366_ASIC_DIFFICULTY
BM1366_ASIC_DIFFICULTY == 256

\* BM1366_set_version_mask: the frame it sends
VersionMaskFrame(version_mask) ==
    LET versions_to_roll == version_mask[1] * 8 + version_mask[2] \div 8192
        version_byte0    == U8(versions_to_roll \div 256)
        version_byte1    == versions_to_roll % 256
    IN  send_BM1366(TYPE_CMD + GROUP_ALL + CMD_WRITE,
                    << 0, 164, 144, 0, version_byte0, version_byte1 >>)

\* the start of _send_init with the version mask sent twice only
ProbeFramesTwoMasks ==
    << FrameEvent(VersionMaskFrame(STRATUM_DEFAULT_VERSION_MASK)),
       FrameEvent(VersionMaskFrame(STRATUM_DEFAULT_VERSION_MASK)),
       FrameEvent(<< 85, 170, 82, 5, 0, 0, 10 >>) >>

\* three times BM1366_set_version_mask, then init3
ProbeFrames ==
    << FrameEvent(VersionMaskFrame(STRATUM_DEFAULT_VERSION_MASK)),
       FrameEvent(VersionMaskFrame(STRATUM_DEFAULT_VERSION_MASK)),
       FrameEvent(VersionMaskFrame(STRATUM_DEFAULT_VERSION_MASK)),
       FrameEvent(<< 85, 170, 82, 5, 0, 0, 10 >>) >>

\* init4, init5 and _send_chain_inactive
MiscFrames ==
    << FrameEvent(<< 85, 170, 81, 9, 0, 168, 0, 7, 0, 0, 3 >>),
       FrameEvent(<< 85, 170, 81, 9, 0, 24, 255, 15, 193, 0, 0 >>),
       FrameEvent(send_BM1366(TYPE_CMD + GROUP_ALL + CMD_INACTIVE, << 0, 0 >>)) >>

\* uint8_t address_interval = (uint8_t)(256 / chip_counter), chip_counter > 0
AddressInterval(counter) == U8(256 \div counter)

\* _set_chip_address(i * address_interval): the frame it sends
SetAddressFrame(i, address_interval) ==
    send_BM1366(TYPE_CMD + GROUP_SINGLE + CMD_SETADDRESS, << U8(i * address_interval), 0 >>)

\* for (uint8_t i = 0; i < chip_counter; i++) _set_chip_address(i * address_interval),
\* for the first count values of i
AddressFrames(count, address_interval) ==
    [ k \in 1 .. count |-> FrameEvent(SetAddressFrame(k - 1, address_interval)) ]

\* init135, init136, BM1366_set_job_difficulty_mask, init138, init139, init171
DiagnosticFrames ==
    << FrameEvent(<< 85, 170, 81, 9, 0, 60, 128, 0, 133, 64, 12 >>),
       FrameEvent(<< 85, 170, 81, 9, 0, 60, 128, 0, 128, 32, 25 >>),
       FrameEvent(send_BM1366(TYPE_CMD + GROUP_ALL + CMD_WRITE,
                              JobDifficultyMask(BM1366_ASIC_DIFFICULTY))),
       FrameEvent(<< 85, 170, 81, 9, 0, 84, 0, 0, 0, 3, 29 >>),
       FrameEvent(<< 85, 170, 81, 9, 0, 88, 2, 17, 17, 17, 6 >>),
       FrameEvent(<< 85, 170, 65, 9, 0, 44, 0, 124, 0, 3, 3 >>) >>

\* register write j of the five that one chip gets
ChipWrite(addr, j) ==
    LET single == TYPE_CMD + GROUP_SINGLE + CMD_WRITE
    IN  CASE j = 1 -> send_BM1366(single, << addr, 168, 0, 7, 1, 240 >>)
          [] j = 2 -> send_BM1366(single, << addr, 24, 240, 0, 193, 0 >>)
          [] j = 3 -> send_BM1366(single, << addr, 60, 128, 0, 133, 64 >>)
          [] j = 4 -> send_BM1366(single, << addr, 60, 128, 0, 128, 32 >>)
          [] j = 5 -> send_BM1366(single, << addr, 60, 128, 0, 130, 170 >>)

\* the per-chip loop: five writes to i * address_interval for every i
ChipFrames(count, address_interval) ==
    [ k \in 1 .. (5 * count) |->
        FrameEvent(ChipWrite(U8(((k - 1) \div 5) * address_interval), ((k - 1) % 5) + 1)) ]

\* the bytes of the frames among the events
FramesOf(events) ==
    LET frames == SelectSeq(events, LAMBDA e : e.kind = "frame")
    IN  [ k \in 1 .. Len(frames) |-> frames[k].bytes ]

\* do_frequency_ramp_up, set_10_hash_counting and init795
RampAndFinalFrames(current, target) ==
    LET w == RampSetpoints(current, target)
    IN  [ k \in 1 .. Len(w) |-> FrameEvent(HashFrequencyFrame(w[k])) ]
        \o << FrameEvent(send_BM1366(TYPE_CMD + GROUP_ALL + CMD_WRITE, << 0, 16, 0, 0, 21, 28 >>)),
              FrameEvent(<< 85, 170, 81, 9, 0, 164, 144, 0, 255, 255, 28 >>) >>

\* chain lengths: the short ones, a long chain, and the lengths around the
\* range of the uint8_t loop counter
ChainLengths == (0 .. MaxChain) \cup { 16, 255, 256, 300 }

\* frequency_value handed to BM1366_init, in MHz
BringUpFrequencies == { 50, 100, 485 }

BringUpUnchanged ==
    /\ UNCHANGED << id, active_jobs, valid_jobs, valid_jobs_lock, spc, next_bm_job, freed >>
    /\ UNCHANGED << stratum_vars, serial_vars, receiver_vars, codec_vars >>
    /\ UNCHANGED << bitmask_vars, nonce_vars, session_vars, line_vars, parse_vars >>
    /\ UNCHANGED << mask_vars, bestdiff_vars, en2_vars, close_vars >>

\* BM1366_init up to the call of _send_init
BringUpReset ==
    /\ ipc = "start"
    /\ init_trace' = init_trace \o ResetEvents
    /\ ipc' = "reset_done"
    /\ UNCHANGED << chain_length, init_frequency, chip_counter, init_ret, tx >>
    /\ UNCHANGED << pll_vars, ramp_vars >>
    /\ BringUpUnchanged

\* _send_init up to the counting loop
BringUpProbe ==
    /\ ipc = "reset_done"
    /\ init_trace' = init_trace \o ProbeFrames
    /\ tx' = FramesOf(init_trace')
    /\ chip_counter' = 0
    /\ ipc' = "counting"
    /\ UNCHANGED << chain_length, init_frequency, init_ret >>
    /\ UNCHANGED << pll_vars, ramp_vars >>
    /\ BringUpUnchanged

\* one SERIAL_rx(asic_response_buffer, 11, 1000) of the counting loop
BringUpCount ==
    /\ ipc = "counting"
    /\ IF chip_counter < chain_length
       THEN chip_counter' = chip_counter + 1 /\ ipc' = "counting"
       ELSE chip_counter' = chip_counter /\ ipc' = "counted"
    /\ UNCHANGED << chain_length, init_frequency, init_trace, init_ret, tx >>
    /\ UNCHANGED << pll_vars, ramp_vars >>
    /\ BringUpUnchanged

\* init4, init5, _send_chain_inactive and the address loop.  256 / 0 is
\* undefined: the division traps, or gives some value and the loop, which
\* has nothing to do, is passed.  With 256 or more chips i < chip_counter is
\* true for every uint8_t i and the loop does not end: the trace holds its
\* first pass and the first frame of the second.
BringUpAddress ==
    /\ ipc = "counted"
    /\ \/ /\ chip_counter = 0
          /\ \E outcome \in { "panic", "addressed" } :
                /\ ipc' = outcome
                /\ init_trace' = init_trace \o MiscFrames
       \/ /\ chip_counter \in 1 .. 255
          /\ ipc' = "addressed"
          /\ init_trace' = init_trace \o MiscFrames
                              \o AddressFrames(chip_counter, AddressInterval(chip_counter))
       \/ /\ chip_counter >= 256
          /\ ipc' = "looping"
          /\ init_trace' = init_trace \o MiscFrames
                              \o AddressFrames(257, AddressInterval(chip_counter))
    /\ tx' = FramesOf(init_trace')
    /\ UNCHANGED << chain_length, init_frequency, chip_counter, init_ret >>
    /\ UNCHANGED << pll_vars, ramp_vars >>
    /\ BringUpUnchanged

\* init135 .. init171 and the per-chip writes
BringUpConfigure ==
    /\ ipc = "addressed"
    /\ LET address_interval == IF chip_counter = 0 THEN 0 ELSE AddressInterval(chip_counter)
       IN  init_trace' = init_trace \o DiagnosticFrames
                             \o ChipFrames(chip_counter, address_interval)
    /\ tx' = FramesOf(init_trace')
    /\ ipc' = "configured"
    /\ UNCHANGED << chain_length, init_frequency, chip_counter, init_ret >>
    /\ UNCHANGED << pll_vars, ramp_vars >>
    /\ BringUpUnchanged

\* do_frequency_ramp_up, the last two frames and the return
BringUpRamp ==
    /\ ipc = "configured"
    /\ LET target == 100 * init_frequency
       IN  /\ init_trace' = init_trace \o RampAndFinalFrames(current_frequency, target)
           /\ tx' = FramesOf(init_trace')
           /\ ramp_start' = current_frequency
           /\ ramp_target' = target
           /\ ramp_writes' = RampSetpoints(current_frequency, target)
           /\ target_freq' = target
           /\ pll_dividers' = SearchDividers(target)
           /\ current_frequency' = NewFrequency(SearchDividers(target))
    /\ init_ret' = U8(chip_counter)
    /\ ipc' = "done"
    /\ UNCHANGED << chain_length, init_frequency, chip_counter >>
    /\ BringUpUnchanged

(***************************************************************************)
(* _check_for_best_diff and _calculate_network_difficulty (system.c).  A   *)
(* double difficulty is held as a whole number of halves, so that 0.5 and  *)
(* 256.5 can be told from 0 and 256; nBits is a W32.                       *)
(***************************************************************************)
\* (uint64_t) diff
TruncU64(diff) == diff \div 2

\* uint32_t mantissa = nBits & 0x007fffff
NbitsMantissa(nBits) == (nBits[1] % 128) * 65536 + nBits[2]

\* uint8_t exponent = (nBits >> 24) & 0xff
NbitsExponent(nBits) == nBits[1] \div 256

\* diff > network_diff, with network_diff = (2^208 * 65535) / (mantissa *
\* 256^(exponent - 3)) = 65535 * 256^(29 - exponent) / mantissa; a mantissa
\* of 0 gives an infinite network_diff.  For exponents 28 and 29.
AboveNetworkDifficulty(diff, nBits) ==
    /\ NbitsMantissa(nBits) # 0
    /\ diff * NbitsMantissa(nBits) > 2 * 65535 * Pow2(8 * (29 - NbitsExponent(nBits)))

\* the early return taken only when the truncated difficulty is below the best
BestDiffUnchangedIfBelow(diff, best) == TruncU64(diff) < best

\* if ((uint64_t) diff <= module->best_nonce_diff) return
BestDiffUnchanged(diff, best) == TruncU64(diff) <= best

\* difficulties of found nonces, in halves: 0.5, 1, 1.5, 100, 256, 256.5,
\* 300, 600, 2000
DiffSamples == { 1, 2, 3, 200, 512, 513, 600, 1200, 4000 }

\* nBits of the jobs: 0x1d00ffff (difficulty 1), 0x1c01fffe (128),
\* 0x1c00ffff (256)
NbitsSamples == { W32(7424, 65535), W32(7169, 65534), W32(7168, 65535) }

\* module->best_nonce_diff as nvs_config_get_u64(NVS_CONFIG_BEST_DIFF, 0) gives it
StoredBestDiffs == { 0, 100, 1000 }

_check_for_best_diff ==
    /\ Len(found_log) < MaxNonces
    /\ \E diff \in DiffSamples, nBits \in NbitsSamples :
          LET session == IF TruncU64(diff) > best_session_nonce_diff
                         THEN TruncU64(diff) ELSE best_session_nonce_diff
              kept    == BestDiffUnchanged(diff, best_nonce_diff)
              found   == ~ kept /\ AboveNetworkDifficulty(diff, nBits)
          IN  /\ best_session_nonce_diff' = session
              /\ best_nonce_diff' = IF kept THEN best_nonce_diff ELSE TruncU64(diff)
              /\ nvs_writes' = IF kept THEN nvs_writes ELSE Append(nvs_writes, TruncU64(diff))
              /\ FOUND_BLOCK' = (FOUND_BLOCK \/ found)
              /\ found_log' = Append(found_log,
                                 [ diff |-> diff, nBits |-> nBits,
                                   best_before |-> best_nonce_diff,
                                   best_after |-> IF kept THEN best_nonce_diff ELSE TruncU64(diff),
                                   wrote |-> ~ kept,
                                   flagged |-> (FOUND_BLOCK \/ found) ])
    /\ UNCHANGED << id, active_jobs, valid_jobs, valid_jobs_lock, spc, next_bm_job, freed, tx >>
    /\ UNCHANGED << stratum_vars, serial_vars, receiver_vars, codec_vars >>
    /\ UNCHANGED << bitmask_vars, nonce_vars, session_vars, line_vars, parse_vars, pll_vars >>
    /\ UNCHANGED << ramp_vars, mask_vars, init_vars, en2_vars, close_vars >>

(***************************************************************************)
(* extranonce_2_generate (mining.c and stratum_api.c).  A string is the    *)
(* sequence of the values of its hex digits.                               *)
(***************************************************************************)
\* bin2hex: two hex digits for every byte, high digit first
bin2hex(bytes) ==
    [ k \in 1 .. (2 * Len(bytes)) |->
        IF k % 2 = 1 THEN bytes[(k + 1) \div 2] \div 16 ELSE bytes[k \div 2] % 16 ]

\* memset(extranonce_2_str, '0', length * 2)
ZeroDigits(n) == [ k \in 1 .. n |-> 0 ]

\* what lies in memory behind the uint32_t argument
StackBytes == { 0, 165 }

\* the bytes bin2hex reads at (uint8_t *)&extranonce_2 when told to read
\* length of them: the four of the value, then whatever follows it
BytesAtValue(value, length, behind) ==
    [ k \in 1 .. length |-> IF k <= 4 THEN LE32W(value)[k] ELSE behind ]

\* mining.c: bin2hex((uint8_t *)&extranonce_2, length, ..)
extranonce_2_generate_mining(value, length, behind) ==
    bin2hex(BytesAtValue(value, length, behind))

\* stratum_api.c: bin2hex of sizeof(extranonce_2) bytes into a buffer of
\* length * 2 + 1; bin2hex ends the string after its 8 digits, and for
\* length > 4 the terminator at [8] is made a '0' again.  For length < 4 the
\* 8 digits do not fit: bin2hex either refuses and the zeros stay, or
\* writes beyond the buffer.
extranonce_2_generate_api(value, length, refuses) ==
    IF length > 4 THEN bin2hex(LE32W(value)) \o ZeroDigits(2 * length - 8)
    ELSE IF length = 4 THEN bin2hex(LE32W(value))
    ELSE IF refuses THEN ZeroDigits(2 * length)
    ELSE bin2hex(LE32W(value))

\* extranonce_2 counters of the job creator
ExtranonceSamples == { W32(0, 0), W32(0, 1), W32(0, 258), W32(4660, 22136), W32(65535, 65535) }

ExtranonceGenerate ==
    /\ en2_out = << >>
    /\ \E behind \in StackBytes, refuses \in BOOLEAN :
          en2_out' = IF en2_copy = "mining"
                     THEN extranonce_2_generate_mining(en2_value, en2_length, behind)
                     ELSE extranonce_2_generate_api(en2_value, en2_length, refuses)
    /\ UNCHANGED << en2_copy, en2_value, en2_length >>
    /\ UNCHANGED << id, active_jobs, valid_jobs, valid_jobs_lock, spc, next_bm_job, freed, tx >>
    /\ UNCHANGED << stratum_vars, serial_vars, receiver_vars, codec_vars >>
    /\ UNCHANGED << bitmask_vars, nonce_vars, session_vars, line_vars, parse_vars, pll_vars >>
    /\ UNCHANGED << ramp_vars, mask_vars, init_vars, bestdiff_vars, close_vars >>

(***************************************************************************)
(* Specifications.                                                         *)
(***************************************************************************)
InitStratum ==
    /\ n_notify = 0
    /\ last_clean = 0
    /\ abandon_epoch = 0
    /\ notify_queue = << >>
    /\ cur_notif = NoNotif
    /\ asic_job_queue = << >>
    /\ n_jobs = 0

InitSender ==
    /\ id = 0
    /\ active_jobs = [ s \in Slots |-> NoJob ]
    /\ valid_jobs = [ s \in Slots |-> 0 ]
    /\ valid_jobs_lock = "free"
    /\ spc = "idle"
    /\ next_bm_job = NoJob
    /\ freed = << >>
    /\ tx = << >>

InitReceiver ==
    /\ uart_pending = FALSE
    /\ asic_response_buffer = [ i \in 1 .. ResultFrameLen |-> 0 ]
    /\ received = 0
    /\ asic_result = "NULL"
    /\ consec_timeouts = 0
    /\ timeout_logged = FALSE
    /\ rpc = "recv"
    /\ r_valid = 0
    /\ core_id = NoCore
    /\ result = NoResult
    /\ last_share = NoShare
    /\ submit_tick = 0

InitCodecIdle ==
    /\ cmd_header = 0
    /\ cmd_data = << >>

InitBitmaskIdle ==
    /\ bm_mask = W32(0, 0)
    /\ bm_trace = << >>

InitTestNonceIdle ==
    /\ best_diff = 0
    /\ best_nonce = W32(0, 0)
    /\ best_version = 0
    /\ tn_log = << >>

InitSessionIdle ==
    /\ send_uid = 1
    /\ uid_reg = [ t \in { "stratum", "result" } |-> NoRequest ]
    /\ requests = << >>
    /\ stage = 0
    /\ n_submits = 0
    /\ n_resets = 0
    /\ last_response = [ request |-> NoRequest, result |-> "absent",
                         method |-> "STRATUM_UNKNOWN" ]

InitLineIdle ==
    /\ sock_stream = << >>
    /\ line_input = << >>
    /\ json_rpc_buffer = << >>
    /\ lpc = "idle"
    /\ lines_out = << >>
    /\ conn = 1
    /\ discarded = 0

InitParseIdle ==
    /\ parse_in = NullJson
    /\ message = NoMessage
    /\ sess = [ difficulty |-> 0, version_mask |-> 0 ]
    /\ sess_prev = sess
    /\ task_action = "none"
    /\ fw = "running"

InitPllIdle ==
    /\ target_freq = 20000
    /\ pll_dividers = DefaultDividers
    /\ current_frequency = InitialFrequency

InitRampIdle ==
    /\ ramp_start = InitialFrequency
    /\ ramp_target = 0
    /\ ramp_writes = << >>

InitMaskIdle == asic_difficulty = 0

InitBringUpIdle ==
    /\ chain_length = 0
    /\ init_frequency = 0
    /\ chip_counter = 0
    /\ ipc = "idle"
    /\ init_trace = << >>
    /\ init_ret = -1

InitBestDiffIdle ==
    /\ best_session_nonce_diff = 0
    /\ best_nonce_diff = 0
    /\ FOUND_BLOCK = FALSE
    /\ nvs_writes = << >>
    /\ found_log = << >>

InitExtranonceIdle ==
    /\ en2_copy = "mining"
    /\ en2_value = W32(0, 0)
    /\ en2_length = 0
    /\ en2_out = << >>

InitCloseIdle ==
    /\ peer_closed = FALSE
    /\ zero_reads = 0

InitChipIdle ==
    /\ InitRampIdle
    /\ InitMaskIdle
    /\ InitBringUpIdle
    /\ InitBestDiffIdle
    /\ InitExtranonceIdle
    /\ InitCloseIdle

InitUnitsIdle ==
    /\ InitChipIdle
    /\ InitPllIdle
    /\ InitBitmaskIdle
    /\ InitTestNonceIdle
    /\ InitSessionIdle
    /\ InitLineIdle
    /\ InitParseIdle

Init ==
    /\ InitStratum
    /\ InitSender
    /\ InitReceiver
    /\ InitCodecIdle
    /\ InitUnitsIdle

Next ==
    \/ StratumReader
    \/ JobCreatorAccept
    \/ JobCreatorBuild(MaxJobs)
    \/ SendWorkBegin
    \/ SendWorkInstall
    \/ SendWorkLock
    \/ SendWorkSetValid
    \/ SendWorkUnlock
    \/ SendWorkTransmit
    \/ AsicEmit
    \/ ReceiveWork(FrameSet)
    \/ ProccessWorkNullTest
    \/ CheckValid
    \/ ReadActive
    \/ ResultTask

Spec == Init /\ [][Next]_vars

\* The sender over a full turn of the job ids.  The run starts where the
\* job creator has accepted the first notification (no clean_jobs so far);
\* from there on jobs are built and sent.
InitRegistry ==
    /\ n_notify = 1
    /\ last_clean = 0
    /\ abandon_epoch = 0
    /\ notify_queue = << >>
    /\ cur_notif = [ idx |-> 1, version |-> PoolVersion(1), epoch |-> 0, clean |-> FALSE ]
    /\ asic_job_queue = << >>
    /\ n_jobs = 0
    /\ InitSender
    /\ InitReceiver
    /\ InitCodecIdle
    /\ InitUnitsIdle

NextRegistry ==
    \/ JobCreatorBuild(MaxSends)
    \/ SendWorkBegin
    \/ SendWorkInstall
    \/ SendWorkLock
    \/ SendWorkSetValid
    \/ SendWorkUnlock
    \/ SendWorkTransmit

SpecRegistry == InitRegistry /\ [][NextRegistry]_vars

\* The receiver against a registry left by k completed sends of jobs built
\* from the first notification: job j sits in slot 8j mod 128 unless a later
\* job took the slot, and the jobs it displaced have been released.
LastSendInto(s, k) ==
    IF \E j \in 1 .. k : (JobIdStep * j) % JobIdModulus = s
    THEN CHOOSE j \in 1 .. k :
           /\ (JobIdStep * j) % JobIdModulus = s
           /\ \A h \in 1 .. k : (JobIdStep * h) % JobIdModulus = s => h <= j
    ELSE 0

InitDecode ==
    \E k \in 1 .. MaxSends :
        /\ n_notify = 1
        /\ last_clean = 0
        /\ abandon_epoch = 0
        /\ notify_queue = << >>
        /\ cur_notif = [ idx |-> 1, version |-> PoolVersion(1), epoch |-> 0, clean |-> FALSE ]
        /\ asic_job_queue = << >>
        /\ n_jobs = k
        /\ id = (JobIdStep * k) % JobIdModulus
        /\ active_jobs = [ s \in Slots |->
                             IF LastSendInto(s, k) = 0 THEN NoJob
                             ELSE construct_bm_job(cur_notif, LastSendInto(s, k)) ]
        /\ valid_jobs = [ s \in Slots |-> IF LastSendInto(s, k) = 0 THEN 0 ELSE 1 ]
        /\ valid_jobs_lock = "free"
        /\ spc = "idle"
        /\ next_bm_job = construct_bm_job(cur_notif, k)
        /\ freed = [ j \in 1 .. (IF k > 16 THEN k - 16 ELSE 0) |-> j ]
        /\ tx \in { << send_BM1366(TYPE_JOB + GROUP_SINGLE + CMD_WRITE,
                                     JobBytes(id, st, next_bm_job)) >> : st \in RandStarts }
        /\ InitReceiver
        /\ InitCodecIdle
        /\ InitUnitsIdle

NextDecode ==
    \/ AsicEmit
    \/ ReceiveWork(ScenarioFrames)
    \/ ProccessWorkNullTest
    \/ CheckValid
    \/ ReadActive
    \/ ResultTask

SpecDecode == InitDecode /\ [][NextDecode]_vars

\* The wire codec: every header byte, every enumerated payload.
InitCodec ==
    /\ InitStratum
    /\ InitSender
    /\ InitReceiver
    /\ cmd_header \in 0 .. 255
    /\ cmd_data \in PayloadSet
    /\ InitUnitsIdle

NextCodec == CodecSend

SpecCodec == InitCodec /\ [][NextCodec]_vars

\* Version rolling: every sampled version and mask, rolled MaxRolls times.
InitBitmask ==
    /\ InitStratum
    /\ InitSender
    /\ InitReceiver
    /\ InitCodecIdle
    /\ bm_mask \in MaskSamples
    /\ bm_trace \in { << v >> : v \in VersionSamples }
    /\ InitTestNonceIdle
    /\ InitSessionIdle
    /\ InitLineIdle
    /\ InitParseIdle
    /\ InitPllIdle
    /\ InitChipIdle

NextBitmask == RollVersion

SpecBitmask == InitBitmask /\ [][NextBitmask]_vars

\* test_nonce_value called MaxTests times on sampled jobs, nonces and versions.
InitTestNonce ==
    /\ InitStratum
    /\ InitSender
    /\ InitReceiver
    /\ InitCodecIdle
    /\ InitUnitsIdle

NextTestNonce == TestNonceCall

SpecTestNonce == InitTestNonce /\ [][NextTestNonce]_vars

\* One pool session and a reconnect: startup requests, submits, responses.
InitSession ==
    /\ InitStratum
    /\ InitSender
    /\ InitReceiver
    /\ InitCodecIdle
    /\ InitUnitsIdle

NextSession ==
    \/ StratumRequestBegin
    \/ StratumRequestEnd
    \/ SkipSuggestDifficulty
    \/ SubmitBegin
    \/ SubmitEnd
    \/ STRATUM_V1_reset_uid
    \/ PoolResponse

SpecSession == InitSession /\ [][NextSession]_vars

\* The line reader on every stream of up to MaxStream bytes, cut into
\* chunks in every way, with a read failure at any recv.
InitLine ==
    /\ InitStratum
    /\ InitSender
    /\ InitReceiver
    /\ InitCodecIdle
    /\ InitBitmaskIdle
    /\ InitTestNonceIdle
    /\ InitSessionIdle
    /\ InitParseIdle
    /\ InitPllIdle
    /\ InitChipIdle
    /\ sock_stream \in SeqsUpTo(StreamBytes, MaxStream)
    /\ line_input = sock_stream
    /\ json_rpc_buffer = << >>
    /\ lpc = "idle"
    /\ lines_out = << >>
    /\ conn = 1
    /\ discarded = 0

NextLine ==
    \/ ReceiveLineCall
    \/ RecvChunk
    \/ RecvError

SpecLine == InitLine /\ [][NextLine]_vars

\* The stratum task parsing line after line.
InitParse ==
    /\ InitStratum
    /\ InitSender
    /\ InitReceiver
    /\ InitCodecIdle
    /\ InitUnitsIdle

NextParse == ParseLine

SpecParse == InitParse /\ [][NextParse]_vars

\* The divider search on every sampled target frequency.
InitPll ==
    /\ InitStratum
    /\ InitSender
    /\ InitReceiver
    /\ InitCodecIdle
    /\ InitBitmaskIdle
    /\ InitTestNonceIdle
    /\ InitSessionIdle
    /\ InitLineIdle
    /\ InitParseIdle
    /\ InitChipIdle
    /\ target_freq \in TargetFreqs
    /\ pll_dividers = [ fb |-> 0, ref |-> 0, post1 |-> 0, post2 |-> 0, found |-> FALSE ]
    /\ current_frequency = InitialFrequency

NextPll == BM1366_send_hash_frequency

SpecPll == InitPll /\ [][NextPll]_vars

\* One frequency ramp from every start frequency to every target.
InitRamp ==
    /\ InitStratum
    /\ InitSender
    /\ InitReceiver
    /\ InitCodecIdle
    /\ InitBitmaskIdle
    /\ InitTestNonceIdle
    /\ InitSessionIdle
    /\ InitLineIdle
    /\ InitParseIdle
    /\ InitMaskIdle
    /\ InitBringUpIdle
    /\ InitBestDiffIdle
    /\ InitExtranonceIdle
    /\ InitCloseIdle
    /\ target_freq = 20000
    /\ pll_dividers = DefaultDividers
    /\ current_frequency \in StartFrequencies
    /\ ramp_start = current_frequency
    /\ ramp_target \in RampTargets
    /\ ramp_writes = << >>

NextRamp == do_frequency_ramp_up

SpecRamp == InitRamp /\ [][NextRamp]_vars

\* One ticket-mask write for every sampled difficulty.
InitMask ==
    /\ InitStratum
    /\ InitSender
    /\ InitReceiver
    /\ InitCodecIdle
    /\ InitBitmaskIdle
    /\ InitTestNonceIdle
    /\ InitSessionIdle
    /\ InitLineIdle
    /\ InitParseIdle
    /\ InitPllIdle
    /\ InitRampIdle
    /\ InitBringUpIdle
    /\ InitBestDiffIdle
    /\ InitExtranonceIdle
    /\ InitCloseIdle
    /\ asic_difficulty \in DifficultySamples

NextMask == BM1366_set_job_difficulty_mask

SpecMask == InitMask /\ [][NextMask]_vars

\* One bring-up of every sampled chain at every sampled frequency.
InitBringUp ==
    /\ InitStratum
    /\ InitSender
    /\ InitReceiver
    /\ InitCodecIdle
    /\ InitBitmaskIdle
    /\ InitTestNonceIdle
    /\ InitSessionIdle
    /\ InitLineIdle
    /\ InitParseIdle
    /\ InitPllIdle
    /\ InitRampIdle
    /\ InitMaskIdle
    /\ InitBestDiffIdle
    /\ InitExtranonceIdle
    /\ InitCloseIdle
    /\ chain_length \in ChainLengths
    /\ init_frequency \in BringUpFrequencies
    /\ chip_counter = 0
    /\ ipc = "start"
    /\ init_trace = << >>
    /\ init_ret = -1

NextBringUp ==
    \/ BringUpReset
    \/ BringUpProbe
    \/ BringUpCount
    \/ BringUpAddress
    \/ BringUpConfigure
    \/ BringUpRamp

SpecBringUp == InitBringUp /\ [][NextBringUp]_vars

\* Found nonces reported to the system module after a boot.
InitBestDiff ==
    /\ InitStratum
    /\ InitSender
    /\ InitReceiver
    /\ InitCodecIdle
    /\ InitBitmaskIdle
    /\ InitTestNonceIdle
    /\ InitSessionIdle
    /\ InitLineIdle
    /\ InitParseIdle
    /\ InitPllIdle
    /\ InitRampIdle
    /\ InitMaskIdle
    /\ InitBringUpIdle
    /\ InitExtranonceIdle
    /\ InitCloseIdle
    /\ best_session_nonce_diff = 0
    /\ best_nonce_diff \in StoredBestDiffs
    /\ FOUND_BLOCK = FALSE
    /\ nvs_writes = << >>
    /\ found_log = << >>

NextBestDiff == _check_for_best_diff

SpecBestDiff == InitBestDiff /\ [][NextBestDiff]_vars

\* One extranonce_2 string for every sampled value and length, from either
\* definition of the function.
InitExtranonce ==
    /\ InitStratum
    /\ InitSender
    /\ InitReceiver
    /\ InitCodecIdle
    /\ InitBitmaskIdle
    /\ InitTestNonceIdle
    /\ InitSessionIdle
    /\ InitLineIdle
    /\ InitParseIdle
    /\ InitPllIdle
    /\ InitRampIdle
    /\ InitMaskIdle
    /\ InitBringUpIdle
    /\ InitBestDiffIdle
    /\ InitCloseIdle
    /\ en2_copy \in { "mining", "stratum_api" }
    /\ en2_value \in ExtranonceSamples
    /\ en2_length \in 1 .. MaxExtranonceLen
    /\ en2_out = << >>

NextExtranonce == ExtranonceGenerate

SpecExtranonce == InitExtranonce /\ [][NextExtranonce]_vars

\* One BM1366_send_work against a running receiver: either the first send
\* into an empty registry, or the seventeenth, which takes the slot of the
\* first (id 8) again while results for that id may still arrive.
RegistryAfter == { 0, 16 }

InitReplace ==
    \E k \in RegistryAfter :
        /\ n_notify = 1
        /\ last_clean = 0
        /\ abandon_epoch = 0
        /\ notify_queue = << >>
        /\ cur_notif = [ idx |-> 1, version |-> PoolVersion(1), epoch |-> 0, clean |-> FALSE ]
        /\ asic_job_queue = << construct_bm_job(cur_notif, k + 1) >>
        /\ n_jobs = k + 1
        /\ id = (JobIdStep * k) % JobIdModulus
        /\ active_jobs = [ s \in Slots |->
                             IF LastSendInto(s, k) = 0 THEN NoJob
                             ELSE construct_bm_job(cur_notif, LastSendInto(s, k)) ]
        /\ valid_jobs = [ s \in Slots |-> IF LastSendInto(s, k) = 0 THEN 0 ELSE 1 ]
        /\ valid_jobs_lock = "free"
        /\ spc = "idle"
        /\ next_bm_job = IF k = 0 THEN NoJob ELSE construct_bm_job(cur_notif, k)
        /\ freed = << >>
        /\ tx = IF k = 0 THEN << >>
                ELSE << send_BM1366(TYPE_JOB + GROUP_SINGLE + CMD_WRITE,
                                    JobBytes(id, W32(0, 0), next_bm_job)) >>
        /\ InitReceiver
        /\ InitCodecIdle
        /\ InitUnitsIdle

NextReplace ==
    \/ SendWorkBegin
    \/ SendWorkInstall
    \/ SendWorkLock
    \/ SendWorkSetValid
    \/ SendWorkUnlock
    \/ SendWorkTransmit
    \/ AsicEmit
    \/ ReceiveWork(FrameSet)
    \/ ProccessWorkNullTest
    \/ CheckValid
    \/ ReadActive
    \/ ResultTask

SpecReplace == InitReplace /\ [][NextReplace]_vars

\* STRATUM_V1_parse on response lines, one after the other into the message
\* of the caller, which holds what an earlier line left in it.
InitResponse ==
    /\ InitStratum
    /\ InitSender
    /\ InitReceiver
    /\ InitCodecIdle
    /\ InitBitmaskIdle
    /\ InitTestNonceIdle
    /\ InitSessionIdle
    /\ InitLineIdle
    /\ InitPllIdle
    /\ InitChipIdle
    /\ parse_in = NullJson
    /\ message \in { [ NoMessage EXCEPT !.method = m ] : m \in StratumMethods }
    /\ sess = [ difficulty |-> 0, version_mask |-> 0 ]
    /\ sess_prev = sess
    /\ task_action = "none"
    /\ fw = "running"

NextResponse == ParseResponse

SpecResponse == InitResponse /\ [][NextResponse]_vars

\* STRATUM_V1_receive_jsonrpc_line on a connection that the peer may close
\* at any moment.  The stratum task is always scheduled again: every step of
\* the call that can be taken is taken.
InitClose ==
    /\ InitStratum
    /\ InitSender
    /\ InitReceiver
    /\ InitCodecIdle
    /\ InitBitmaskIdle
    /\ InitTestNonceIdle
    /\ InitSessionIdle
    /\ InitParseIdle
    /\ InitPllIdle
    /\ InitRampIdle
    /\ InitMaskIdle
    /\ InitBringUpIdle
    /\ InitBestDiffIdle
    /\ InitExtranonceIdle
    /\ InitCloseIdle
    /\ sock_stream \in SeqsUpTo(StreamBytes, MaxClosedStream)
    /\ line_input = sock_stream
    /\ json_rpc_buffer = << >>
    /\ lpc = "idle"
    /\ lines_out = << >>
    /\ conn = 1
    /\ discarded = 0

NextClose ==
    \/ ReceiveLineCall
    \/ RecvChunk
    \/ PeerClose
    \/ RecvZero

SpecClose ==
    /\ InitClose
    /\ [][NextClose]_vars
    /\ WF_vars(ReceiveLineCall)
    /\ WF_vars(RecvChunk)
    /\ WF_vars(RecvZero)

(***************************************************************************)
(* Properties.                                                             *)
(***************************************************************************)

C2_ResultOnlyForInstalledJob ==
    rpc = "task" =>
        /\ result.job_id \in Slots
        /\ r_valid = 1
        /\ active_jobs[result.job_id] # NoJob

\* C3: valid[] is written by the sender with the mutex held, and the
\* receiver tests valid[] and reads active[] with the same mutex held.
C3_RegistryUnderMutex ==
    /\ (spc = "set_valid" => valid_jobs_lock = "sender")
    /\ (rpc \in { "check", "read" } => valid_jobs_lock = "receiver")

\* C4: every id BM1366_send_work assigns is (previous id + 8) mod 128, hence
\* a multiple of 8 in [0,128); jobs sit only in slots that are multiples of
\* 8 and no job sits in two slots.
C4_JobIdStepsByEight ==
    [][ /\ (id' # id => id' = (id + 8) % 128)
        /\ id' % 8 = 0
        /\ id' \in 0 .. 127
        /\ \A s \in Slots :
              active_jobs'[s] # NoJob =>
                  /\ s % 8 = 0
                  /\ \A t \in Slots \ { s } : active_jobs'[t] # active_jobs'[s] ]_vars

\* the seventeenth send has been given the id of the first one
C4_Witness ==
    /\ n_jobs = 17
    /\ spc = "install"
    /\ id = 8
    /\ next_bm_job.uid = 17

\* C5: a send that reuses an id releases the job found in the slot, and
\* releases it once; the call puts its own job in the slot and sets valid of
\* that slot; no other slot of active[] or valid[] changes.
C5_SlotReuse ==
    [][ /\ \A s \in Slots \ { id' } :
              active_jobs'[s] = active_jobs[s] /\ valid_jobs'[s] = valid_jobs[s]
        /\ IF spc = "idle" /\ spc' = "install"
           THEN freed' = IF active_jobs[id'] # NoJob
                         THEN Append(freed, active_jobs[id'].uid) ELSE freed
           ELSE freed' = freed
        /\ \A i, j \in 1 .. Len(freed') : i # j => freed'[i] # freed'[j]
        /\ (spc = "transmit" /\ spc' = "idle" =>
               active_jobs'[id'] = next_bm_job' /\ valid_jobs'[id'] = 1) ]_vars

\* the seventeenth send is complete: the first job has been released and
\* its slot holds the seventeenth
C5_Witness ==
    /\ spc = "idle"
    /\ freed = << 1 >>
    /\ active_jobs[8].uid = 17
    /\ valid_jobs[8] = 1

\* C6: when TIMEOUT_THRESHOLD serial reads in a row have timed out, the
\* error that the ASIC is not sending data has been logged.
C6_TimeoutsLogged ==
    consec_timeouts >= BM1366_TIMEOUT_THRESHOLD => timeout_logged

\* C7: a frame returned by BM1366_receive_work starts AA 55 and its crc byte
\* is the CRC5 of the ten bytes before it.
C7_ReturnedFrameCrc ==
    (rpc = "ret" /\ asic_result = "buffer") =>
        /\ asic_response_buffer[1] = 170
        /\ asic_response_buffer[2] = 85
        /\ asic_response_buffer[11] = crc5(SubSeq(asic_response_buffer, 1, 10))

\* C8: a read of a length other than 11, or of bytes that do not start
\* AA 55, makes BM1366_receive_work return NULL and flush the receive
\* buffer; a UART error makes it return NULL; the NULL is passed on by
\* BM1366_proccess_work; the registry stays as it was.
C8_InvalidReadDropped ==
    [][ /\ ( ( /\ rpc = "recv"
                /\ rpc' = "ret"
                /\ \/ received' < 0
                   \/ /\ received' > 0
                      /\ \/ received' # 11
                         \/ asic_response_buffer'[1] # 170
                         \/ asic_response_buffer'[2] # 85 )
             => /\ asic_result' = "NULL"
                /\ (received' > 0 => ~uart_pending')
                /\ active_jobs' = active_jobs
                /\ valid_jobs' = valid_jobs )
        /\ ( (rpc = "ret" /\ asic_result = "NULL" /\ rpc' # "ret")
             => /\ rpc' = "recv"
                /\ result' = result
                /\ active_jobs' = active_jobs
                /\ valid_jobs' = valid_jobs ) ]_vars

\* an 11-byte read that starts 55 AA has been turned down and the receive
\* buffer flushed
C8_Witness ==
    /\ rpc = "ret"
    /\ received = 11
    /\ asic_response_buffer[1] # 170
    /\ asic_result = "NULL"
    /\ ~uart_pending

\* the frame section 4.1 describes for a header byte and a payload, checked
\* against the frame f that was handed to SERIAL_send
WireFrameOf(header, data, f) ==
    LET N     == Len(data)
        isJob == (header \div 32) % 2 = 1
        lenb  == IF isJob THEN N + 4 ELSE N + 3
    IN  /\ Len(f) = N + (IF isJob THEN 6 ELSE 5)
        /\ f[1] = 85
        /\ f[2] = 170
        /\ f[3] = header
        /\ f[4] = lenb
        /\ \A i \in 1 .. N : f[4 + i] = data[i]
        /\ IF isJob
           THEN f[N + 5] * 256 + f[N + 6] = crc16_false(<< header, lenb >> \o data)
           ELSE f[N + 5] = crc5(<< header, lenb >> \o data)
        /\ (header = 65 /\ data = << 0, 20, 0, 0, 0, 255 >> =>
               SubSeq(f, 1, 10) = << 85, 170, 65, 9, 0, 20, 0, 0, 0, 255 >>)

ExampleFrameHead == << 170, 85, 120, 86, 52, 18, 0, 56, 1, 0 >>

\* the example has been received while slot 0x38 is valid and holds a live
\* job of base version 0x20000000, and the result has been returned
ExampleReceived ==
    /\ rpc = "task"
    /\ SubSeq(asic_response_buffer, 1, 10) = ExampleFrameHead
    /\ valid_jobs[56] = 1
    /\ active_jobs[56] # NoJob
    /\ active_jobs[56].version = 536870912
    /\ \A i \in 1 .. Len(freed) : freed[i] # active_jobs[56].uid

\* C10 (as the code has it): the frame AA 55 78 56 34 12 00 38 01 00 <crc>
\* received while slot 0x38 is valid and holds base version 0x20000000 gives
\* job_id 0x38, nonce 0x12345678 and rolled_version
\* 0x20000000 | (0x0100 << 13) = 0x20200000.
C10_ExampleDecoded ==
    ExampleReceived =>
        /\ result.job_id = 56
        /\ result.nonce = W32(4660, 22136)
        /\ result.rolled_version = 538968064

\* the example has been decoded from a frame with a matching crc
C10_Witness ==
    /\ ExampleReceived
    /\ asic_response_buffer[11] = crc5(ExampleFrameHead)
    /\ result.job_id = 56

\* C10 as stated: the same with rolled_version 0x22000000.
C10_ExampleAsStated ==
    ExampleReceived =>
        /\ result.job_id = 56
        /\ result.nonce = W32(4660, 22136)
        /\ result.rolled_version = 570425344

\* C11: whatever the version and the mask, the value increment_bitmask
\* returns differs from its argument only in bit positions set in the mask.
C11_OnlyMaskedBitsChange ==
    \A i \in 1 .. (Len(bm_trace) - 1) :
        And32(Xor32(bm_trace[i], bm_trace[i + 1]), Not32(bm_mask)) = Zero32

\* masked setting of the i-th value of the trace
MaskedSetting(i) == And32(bm_trace[i], bm_mask)

RECURSIVE PopCount(_)
PopCount(x) == IF x = 0 THEN 0 ELSE (x % 2) + PopCount(x \div 2)

\* C12: repeated application goes through 2^popcount(mask) different settings
\* of the masked bits before one of them comes back, and
\* increment_bitmask(0x20000000, 0x1FFFE000) = 0x20002000.
C12_EnumeratesMaskedSettings ==
    /\ \A i, j \in 1 .. Len(bm_trace) :
          (i < j /\ j - i < Pow2(PopCount(bm_mask[1]) + PopCount(bm_mask[2])))
              => MaskedSetting(i) # MaskedSetting(j)
    /\ (bm_mask = W32(8191, 57344) /\ Len(bm_trace) > 1 /\ bm_trace[1] = W32(8192, 0))
          => bm_trace[2] = W32(8192, 8192)

\* C13: test_nonce_value is deterministic and pure: calls with equal inputs
\* return equal difficulties, and no call changes state that a later call or
\* another component can read (the best-share statics that log_best_share
\* prints are the same after the call as before it).
C13_TestNonceIsPure ==
    /\ \A i, j \in 1 .. Len(tn_log) :
          ( /\ tn_log[i].job = tn_log[j].job
            /\ tn_log[i].nonce = tn_log[j].nonce
            /\ tn_log[i].rolled_version = tn_log[j].rolled_version )
              => tn_log[i].ds = tn_log[j].ds
    /\ \A i \in 1 .. Len(tn_log) : tn_log[i].after = tn_log[i].before

\* C14: the requests sent since the last STRATUM_V1_reset_uid (or since the
\* start) carry the ids 1, 2, 3, ... in the order they are sent, whichever
\* task sends them, so no id is used twice and the first request after a
\* reset has id 1.
C14_RequestIdsCountUp ==
    \A i \in 1 .. Len(requests) : requests[i].id = i

\* C15: a result:true|false response whose id is the id of a mining.submit
\* request is classified STRATUM_RESULT, whichever startup requests went
\* before the submit.
C15_SubmitResponseIsShareResult ==
    ( /\ last_response.request.kind = "submit"
      /\ last_response.result \in { "true", "false" } )
        => last_response.method = "STRATUM_RESULT"

\* the lines returned so far, each with its terminator put back
RECURSIVE Rejoined(_)
Rejoined(ls) ==
    IF ls = << >> THEN << >> ELSE Head(ls) \o << NL >> \o Rejoined(Tail(ls))

\* C16: whatever the stream and however it is cut into chunks, the lines
\* returned so far (each once, in order, without its newline), followed by
\* what is still buffered and what is still to be read, are the stream; the
\* reader never fails on the way.
C16_LinesInOrderOnce ==
    /\ lpc # "crashed"
    /\ Rejoined(lines_out) \o CStr(json_rpc_buffer) \o sock_stream = line_input

\* C19: when recv fails the call returns no line and the buffer is given up,
\* so the next call starts from an empty buffer and the lines of the new
\* connection hold bytes of the new connection only.
C19_BufferDroppedOnReadError ==
    conn > 1 =>
        /\ lines_out = << >> /\ lpc = "idle" /\ sock_stream = line_input
              => json_rpc_buffer = << >>
        /\ Rejoined(lines_out) \o CStr(json_rpc_buffer) \o sock_stream = line_input

\* a read failed with bytes in the buffer, and a line of the new connection
\* has been returned since
C19_Witness ==
    /\ conn > 1
    /\ discarded > 0
    /\ lines_out # << >>

\* C17: a line that is not valid JSON is dropped: STRATUM_V1_parse reports
\* STRATUM_UNKNOWN, makes no mining notification, no session parameter
\* changes, and the stratum task goes on to the next line.
C17_InvalidJsonDiscarded ==
    (parse_in # NullJson /\ ~parse_in.valid) =>
        /\ message.method = "STRATUM_UNKNOWN"
        /\ message.mining_notification = "NULL"
        /\ message.new_difficulty = NoMessage.new_difficulty
        /\ message.version_mask = NoMessage.version_mask
        /\ sess = sess_prev
        /\ fw = "running"
        /\ task_action = "skip"

\* a line that is no JSON but reads like a mining.notify followed a line
\* that set the difficulty
C17_Witness ==
    /\ ~parse_in.valid
    /\ parse_in.method = "mining.notify"
    /\ sess.difficulty = 512
    /\ task_action = "skip"

\* C18: after a mining.notify with malformed params the session is aborted
\* and the client reconnects, the firmware still running.
C18_MalformedNotifyReconnects ==
    (parse_in.valid /\ parse_in.method = "mining.notify" /\ parse_in.params # "well_formed") =>
        /\ fw = "running"
        /\ task_action = "reconnect"

\* C20: the dividers written have the least |f_target - 25 fb / (ref post1
\* post2)| of all fb in [144, 235] and all divider triples of the search, and
\* no triple earlier in the search order does as well.
C20_DividersMinimiseError ==
    pll_dividers.fb # 0 =>
        LET chosen == [ ref |-> pll_dividers.ref, post1 |-> pll_dividers.post1,
                        post2 |-> pll_dividers.post2 ]
            err    == FreqDiffTimesProduct(chosen, pll_dividers.fb, target_freq)
            at     == CHOOSE i \in 1 .. Len(LoopOrder) : LoopOrder[i] = chosen
        IN  \A i \in 1 .. Len(LoopOrder) : \A fb \in FbMin .. FbMax :
                LET other == FreqDiffTimesProduct(LoopOrder[i], fb, target_freq)
                IN  /\ err * DivProduct(LoopOrder[i]) <= other * DivProduct(chosen)
                    /\ (i < at) => err * DivProduct(LoopOrder[i]) < other * DivProduct(chosen)

\* The PLL write as it stands on the wire: the command byte, fb, ref and the
\* two post dividers of the frame in tx.
PllFrameWritten == pll_dividers.fb # 0 /\ Len(tx) = 1 /\ Len(tx[1]) = 11
PllCmdByte == tx[1][7]
PllFb      == tx[1][8]
PllRef     == tx[1][9]
PllPost1   == (tx[1][10] \div 16) + 1
PllPost2   == (tx[1][10] % 16) + 1

\* C21 (as the code has it): for f_target = 525.00 MHz the search selects
\* fb = 210, ref = 2, post1 = 5, post2 = 1, which is exactly 525.00 MHz, and
\* the command byte of the PLL write is the high-VCO value 0x50.
C21_Dividers525 ==
    (PllFrameWritten /\ target_freq = 52500) =>
        /\ PllFb = 210 /\ PllRef = 2 /\ PllPost1 = 5 /\ PllPost2 = 1
        /\ 2500 * PllFb = target_freq * PllRef * PllPost1 * PllPost2
        /\ PllCmdByte = 80

C21_Witness == PllFrameWritten /\ target_freq = 52500 /\ pll_dividers.found

\* C21 (as stated): for f_target = 525.00 MHz the search selects fb = 105,
\* ref = 1, post1 = 5, post2 = 1 and the command byte stays the low-VCO value.
C21_Dividers525AsStated ==
    (PllFrameWritten /\ target_freq = 52500) =>
        /\ PllFb = 105 /\ PllRef = 1 /\ PllPost1 = 5 /\ PllPost2 = 1
        /\ PllCmdByte = 64

\* C22: in every PLL write the high-VCO bit of the command byte is set exactly
\* when 25 * fb / ref >= 2400 for the fb and ref of the same write.
C22_HighVcoBit ==
    PllFrameWritten =>
        /\ PllCmdByte \in { 64, 80 }
        /\ (PllCmdByte = 80) <=> (25 * PllFb >= 2400 * PllRef)

C22_Witness == PllFrameWritten /\ PllCmdByte = 80 /\ PllRef = 2 /\ PllFb >= 192

\* C23: when no divider triple of the search has its rounded fb in
\* [144, 235], the fixed 200 MHz set (fb 160, ref 2, post dividers 5 and 2)
\* is written; otherwise the set written has fb in [144, 235], ref in {1, 2},
\* post1 in [1, 7] and post2 in [1, post1).
C23_FallbackOrInRange ==
    PllFrameWritten =>
        LET RoundedFb(r, p1, p2) == (2 * r * p1 * p2 * target_freq + 2500) \div 5000
            some == \E r \in 1 .. 2 : \E p1 \in 1 .. 7 : \E p2 \in 1 .. (p1 - 1) :
                        RoundedFb(r, p1, p2) \in 144 .. 235
        IN  IF some
            THEN /\ PllFb \in 144 .. 235
                 /\ PllRef \in 1 .. 2
                 /\ PllPost1 \in 1 .. 7
                 /\ PllPost2 \in 1 .. (PllPost1 - 1)
            ELSE /\ PllFb = 160 /\ PllRef = 2 /\ PllPost1 = 5 /\ PllPost2 = 2
                 /\ PllCmdByte = 64
                 /\ current_frequency = << 2500 * 160, 20 >>

C23_Witness == PllFrameWritten /\ ~ pll_dividers.found /\ target_freq = 4000

\* C24: the setpoints of a ramp go from the start frequency toward the target
\* and never beyond it, no step is longer than 6.25 MHz, and the last write
\* is the target itself.
C24_RampTowardTarget ==
    ramp_writes # << >> =>
        LET w    == ramp_writes
            n    == ramp_start[1]
            d    == ramp_start[2]
            up   == ramp_target * d >= n
        IN  /\ w[Len(w)] = ramp_target
            /\ Abs(w[1] * d - n) <= RampStep * d
            /\ \A i \in 1 .. Len(w) :
                   IF up THEN w[i] * d >= n /\ w[i] <= ramp_target
                   ELSE w[i] * d <= n /\ w[i] >= ramp_target
            /\ \A i \in 1 .. (Len(w) - 1) :
                   /\ Abs(w[i + 1] - w[i]) <= RampStep
                   /\ IF up THEN w[i + 1] >= w[i] ELSE w[i + 1] <= w[i]

\* C25: for a requested difficulty d >= 1 the ticket-mask write is a
\* broadcast WRITE with a payload of exactly 6 bytes: address 0x00, register
\* 0x14, and m = (largest power of two <= d) - 1 as 4 bytes, most significant
\* byte first, each byte bit-reversed.
C25_TicketMaskWrite ==
    (tx # << >> /\ asic_difficulty >= 1) =>
        LET frame == tx[1]
            d     == asic_difficulty
        IN  \E e \in 0 .. 30 :
                /\ Pow2(e) <= d
                /\ (e < 30 => d < Pow2(e + 1))
                /\ Len(tx) = 1
                /\ Len(frame) = 11
                /\ frame[3] = TYPE_CMD + GROUP_ALL + CMD_WRITE
                /\ frame[4] = 6 + 3
                /\ frame[5] = 0
                /\ frame[6] = 20
                /\ \A j \in 0 .. 3 : \A k \in 0 .. 7 :
                       Bit(frame[7 + j], 7 - k)
                           = Bit(((Pow2(e) - 1) \div Pow2(8 * (3 - j))) % 256, k)

C25_Witness ==
    /\ tx # << >>
    /\ asic_difficulty = 1000
    /\ SubSeq(tx[1], 5, 10) = << 0, 20, 0, 0, 128, 255 >>

\* Frames of bring-up, told apart by their header and register bytes.
FrameIdx(P(_)) ==
    { i \in 1 .. Len(init_trace) : init_trace[i].kind = "frame" /\ P(init_trace[i].bytes) }
IsVersionMaskWrite(b) == b[3] = 81 /\ b[6] = 164
IsProbe(b)            == b[3] = 82
IsInactive(b)         == b[3] = 83
IsSetAddress(b)       == b[3] = 64
IsDifficultyMask(b)   == b[3] = 81 /\ b[6] = 20
IsChipWrite(b)        == b[3] = 65
IsPllWrite(b)         == b[3] = 81 /\ b[6] = 8

\* C26: bring-up keeps its order: the reset (line low for at least 100 ms,
\* then high for at least 100 ms) is over before the first frame; three
\* version-mask writes precede the enumeration probe; an INACTIVE broadcast
\* precedes every SET_ADDRESS; every SET_ADDRESS precedes the difficulty-mask
\* write; the per-chip writes precede the frequency ramp; and the last frame
\* of a finished bring-up is the version-mask write.
C26_BringUpOrder ==
    LET n == Len(init_trace)
    IN  /\ n > 0 =>
               /\ n >= 4
               /\ init_trace[1].kind = "gpio" /\ init_trace[1].level = 0
               /\ init_trace[2].kind = "delay" /\ init_trace[2].ms >= 100
               /\ init_trace[3].kind = "gpio" /\ init_trace[3].level = 1
               /\ init_trace[4].kind = "delay" /\ init_trace[4].ms >= 100
               /\ \A i \in 5 .. n : init_trace[i].kind = "frame"
        /\ \A p \in FrameIdx(IsProbe) :
               Cardinality({ i \in FrameIdx(IsVersionMaskWrite) : i < p }) = 3
        /\ \A a \in FrameIdx(IsSetAddress) : \E i \in FrameIdx(IsInactive) : i < a
        /\ \A m \in FrameIdx(IsDifficultyMask) : \A a \in FrameIdx(IsSetAddress) : a < m
        /\ \A r \in FrameIdx(IsPllWrite) : \A c \in FrameIdx(IsChipWrite) : c < r
        /\ init_ret # -1 =>
               /\ IsVersionMaskWrite(init_trace[n].bytes)
               /\ FrameIdx(IsProbe) # { }
               /\ FrameIdx(IsInactive) # { }
               /\ FrameIdx(IsDifficultyMask) # { }
               /\ FrameIdx(IsPllWrite) # { }

C26_Witness ==
    /\ init_ret # -1
    /\ chain_length = 3
    /\ Cardinality(FrameIdx(IsSetAddress)) = 3
    /\ Cardinality(FrameIdx(IsChipWrite)) = 16

\* The addresses of bring-up: SET_ADDRESS number k (from 0) carries
\* k * floor(256 / N) in a SINGLE frame, the addresses are pairwise distinct,
\* and the per-chip writes go to the same addresses.
AddressesAsSpecified ==
    LET A    == FrameIdx(IsSetAddress)
        addr(i) == init_trace[i].bytes[5]
    IN  /\ Cardinality(A) = chain_length
        /\ \A a \in A :
               /\ init_trace[a].bytes[3] = TYPE_CMD + GROUP_SINGLE + CMD_SETADDRESS
               /\ Len(init_trace[a].bytes) = 7
               /\ addr(a) = Cardinality({ x \in A : x < a }) * (256 \div chain_length)
        /\ \A a, b \in A : a # b => addr(a) # addr(b)
        /\ ipc \in { "configured", "done" } =>
               { addr(c) : c \in FrameIdx(IsChipWrite) } = { addr(a) : a \in A }

\* C27: for every observed chain length N >= 1, chip i gets address
\* i * floor(256 / N) by a SINGLE SET_ADDRESS frame, the N addresses are
\* pairwise distinct, and the per-chip writes use the same addresses.
C27_AddressesEveryLength ==
    (chain_length >= 1 /\ ipc \in { "addressed", "configured", "done", "looping" })
        => AddressesAsSpecified

\* C28: whatever the observed chain length N >= 0 is, bring-up goes through
\* all its steps and BM1366_init returns N.
C28_ProceedsWithObservedLength ==
    /\ ipc \notin { "panic", "looping" }
    /\ init_ret # -1 => init_ret = chain_length

\* C29: a found nonce whose difficulty is at least the network difficulty of
\* the nbits of its job leaves FOUND_BLOCK set, whatever the best
\* difficulties recorded before it.
C29_BlockFlaggedAtNetworkDifficulty ==
    \A i \in 1 .. Len(found_log) :
        LET e == found_log[i]
            mantissa == (e.nBits[1] % 128) * 65536 + e.nBits[2]
            exponent == e.nBits[1] \div 256
        IN  (e.diff * mantissa >= 2 * 65535 * Pow2(8 * (29 - exponent))) => e.flagged

\* C30: every value written to the best_difficulty setting is at least 1 and
\* above the all-time best held before the write, and every rise of the
\* all-time best is written.
C30_PersistedBestDifficulty ==
    /\ \A i \in 1 .. Len(found_log) :
           LET e == found_log[i]
           IN  /\ e.best_after >= e.best_before
               /\ e.wrote <=> (e.best_after > e.best_before)
    /\ \A k \in 1 .. Len(nvs_writes) : nvs_writes[k] >= 1
    /\ LET written == SelectSeq(found_log, LAMBDA e : e.wrote)
       IN  /\ Len(written) = Len(nvs_writes)
           /\ \A k \in 1 .. Len(written) :
                  /\ nvs_writes[k] = written[k].best_after
                  /\ nvs_writes[k] > written[k].best_before
    /\ nvs_writes # << >> => best_nonce_diff = nvs_writes[Len(nvs_writes)]

C30_Witness ==
    /\ Len(found_log) = 2
    /\ found_log[1].diff = 1 /\ ~ found_log[1].wrote
    /\ found_log[2].diff = 3 /\ found_log[2].wrote
    /\ nvs_writes = << 1 >>

\* C31: extranonce_2_generate returns exactly 2 * L hex digits fixed by the
\* value and L alone: the bytes of the value, lowest address first, and '0'
\* digits for the bytes beyond the fourth.
C31_ExtranonceString ==
    en2_out # << >> =>
        /\ Len(en2_out) = 2 * en2_length
        /\ \A k \in 1 .. en2_length :
               LET byte == IF k = 1 THEN en2_value[2] % 256
                           ELSE IF k = 2 THEN en2_value[2] \div 256
                           ELSE IF k = 3 THEN en2_value[1] % 256
                           ELSE IF k = 4 THEN en2_value[1] \div 256
                           ELSE 0
               IN  en2_out[2 * k - 1] = byte \div 16 /\ en2_out[2 * k] = byte % 16

\* the job_id byte of the JOB frame last written to the chain
JobFrameId == tx[1][5]

\* BM1366_send_work is between taking the new id and handing the frame over
SenderInstalling == spc \in { "install", "lock", "set_valid", "unlock" }

C33_ReceiverReadsLiveJob ==
    [][ (rpc = "read" /\ rpc' = "task") =>
            LET job_id == ResultJobId(asic_response_buffer)
            IN  /\ job_id \in Slots
                /\ active_jobs[job_id] # NoJob
                /\ \A i \in 1 .. Len(freed) : freed[i] # active_jobs[job_id].uid ]_vars

\* C34: the index job_id & 0xF8 with which BM1366_proccess_work reads
\* valid[] and active[] is an id that can be assigned, one of [0,128),
\* whatever the job_id byte of the frame.
C34_JobIdIndexInRange ==
    rpc \in { "check", "read" } =>
        /\ ResultJobId(asic_response_buffer) >= 0
        /\ ResultJobId(asic_response_buffer) < JobIdModulus

\* C35: the core_id taken from the nonce of a received frame, with which
\* core_stats[] is indexed, is smaller than the 112 entries of the table.
C35_CoreIdInTable ==
    core_id # NoCore => (core_id >= 0 /\ core_id < CoreStatsSize)

\* C36: a response whose result is boolean true is reported with
\* response_success = true, with the error member null as well as with the
\* error member absent.
C36_TrueResultIsSuccess ==
    (parse_in.valid /\ parse_in.method = "absent" /\ parse_in.result = "true"
        /\ parse_in.error \in { "null", "absent" }) =>
            message.response_success

\* what message.method may say of a line: the method the line is dispatched
\* to; for a subscribe response without its elements also STRATUM_UNKNOWN
Describes(stratum_json) ==
    { ParsedMethod(cJSON_Parse(stratum_json)) } \cup
    ( IF SubscribeIncomplete(cJSON_Parse(stratum_json)) THEN { "STRATUM_UNKNOWN" } ELSE { } )

\* C37: after every call of STRATUM_V1_parse message.method describes the
\* line just parsed, not an earlier one, also for a subscribe response that
\* lacks extranonce or extranonce2_len.
C37_MethodOfThisLine ==
    parse_in # NullJson => message.method \in Describes(parse_in)

\* C38: STRATUM_V1_receive_jsonrpc_line always returns: when the peer has
\* closed the connection before a complete line arrived and recv returns 0,
\* the call ends (and reports the failure to its caller).
C38_ClosedPeerEndsCall ==
    (lpc = "loop" /\ peer_closed /\ sock_stream = << >>) ~> (lpc # "loop")

=============================================================================
